---- MODULE Spec2Model ----
(***************************************************************************)
(* A model of pants' experimental engine scheduler                         *)
(* (src/python/pants/engine/exp/scheduler.py): the Promise future, the     *)
(* ProductGraph and its satisfiability, Planners' graph expansion, the     *)
(* ProductMapper and ExecutionGraph.walk.                                  *)
(***************************************************************************)
EXTENDS Integers, Sequences, FiniteSets, TLC

VARIABLES
    \* ---- Promise (the future): scheduler.py 696-721
    p_success,      \* Promise._success
    p_failure,      \* Promise._failure
    p_event,        \* Promise._event (threading.Event flag)
    wpc,            \* the writer thread's position inside success()/failure()
    calls,          \* history: the success/failure calls that have completed
    rpc,            \* each reader thread's position inside get()
    rres,           \* each reader's outcome of its last completed get()
    rblocked,       \* history: the reader's current get() found the event unset
    \* ---- the build request and the registry: scheduler.py 511-524, 867-887
    native,         \* the product types concretely present on each subject
    tasks,          \* Planners._tasks: the registered members of TaskPool
    root_products,  \* the products of the requested goals, in order
    phase,          \* "new", "planning", "failed" or "scheduled"
    product_graph,  \* the ProductGraph built for the request
    \* ---- ProductMapper: scheduler.py 732-844
    mapper,         \* _promises and _plans_by_product_type_by_planner
    last_call,      \* the arguments of the latest promise() call
    last_res,       \* what that call returned or raised
    last_hit,       \* history: its promise-key was resolved before the call
    last_queries,   \* history: how often that call asked sources_for
    ncalls,         \* how many promise() calls callers have made
    \* ---- LocalScheduler and ExecutionGraph: scheduler.py 647-693, 867-912
    cover,          \* how the registered planners cover subjects in this build
    hash_order,     \* the iteration order of this process's sets
    root_promises,  \* LocalScheduler._root_promises / ExecutionGraph._root_promises
    walker,         \* the generator each walk() caller holds
    \* ---- a caller of the ProductGraph's own methods: scheduler.py 414-458
    graph_call,     \* the latest call made on the product graph
    graph_res,      \* what that call returned or raised
    \* ---- LocalScheduler.schedule: scheduler.py 899-909
    sched,          \* the schedule() calls made and what the latest one gave
    \* ---- a holder of Plans: scheduler.py 184-316
    plan_args,      \* the Plans and the products the holder has
    plan_res,       \* what the holder's latest Plan operation gave
    \* ---- ScalaJSZincCompile: scala_js_zinc_compile.py 31-59
    context,        \* self.context: its targets, their kinds, sources and dependencies
    selected_target_addresses,  \* self._selected_target_addresses
    select_last,    \* the select() calls made and what the latest one gave
    \* ---- FSEventService: fs_event_service.py 27-40, 99-143
    shutdown_executor,  \* self._shutdown_executor
    is_killed,      \* PantsService.is_killed: the kill switch is set
    terminate_pc,   \* the terminating thread's position inside terminate()
    executor,       \* self._executor: whether shut down, each submitted callback's state
    run_pc,         \* the service thread's position inside run()
    nevents,        \* how many events watchman.subscribed() has yielded
    event,          \* run's handler_name, event_data
    futures,        \* run's futures: the pending map, future -> handler_name
    completed,      \* run's list of completed futures still to be processed
    id_counter,     \* run's id_counter
    logger          \* self._logger: the records logged by run

pvars == <<p_success, p_failure, p_event, wpc, calls, rpc, rres, rblocked>>

bvars == <<native, tasks, root_products, phase, product_graph>>

mvars == <<mapper, last_call, last_res, last_hit, last_queries, ncalls>>

svars == <<cover, hash_order, root_promises, walker>>

gvars == <<graph_call, graph_res>>

jvars == <<context, selected_target_addresses, select_last>>

fvars == <<shutdown_executor, is_killed, terminate_pc, executor, run_pc, nevents,
           event, futures, completed, id_counter, logger>>

hvars == <<sched, plan_args, plan_res, jvars, fvars>>

vars == <<pvars, bvars, mvars, svars, gvars, hvars>>

None == "None"

(***************************************************************************)
(* Bounds.                                                                 *)
(***************************************************************************)
MaxCalls == 2
MaxPromiseCalls == 2
NumReaders == 2
NumWalkers == 2
MaxGraphSize == 5
MaxScheduleCalls == 2
MaxItems == 2
MaxSelectCalls == 3
MaxEvents == 3

Values == {"v1", "v2"}
Errors == {"e1", "e2"}
Readers == 1..NumReaders

(***************************************************************************)
(* Promise: a future handing a value between threads.                      *)
(***************************************************************************)
\* Python truthiness of the stored failure: None is falsy, an exception
\* instance is truthy.
Truthy(x) == x # None

\* The writer thread is outside success()/failure().
Idle == [op |-> "idle", arg |-> None]

PromiseInit ==
    /\ p_success = None
    /\ p_failure = None
    /\ p_event = FALSE
    /\ wpc = Idle
    /\ calls = <<>>
    /\ rpc = [r \in Readers |-> "idle"]
    /\ rres = [r \in Readers |-> [kind |-> "none", val |-> None]]
    /\ rblocked = [r \in Readers |-> FALSE]

\* success(): self._success = success
success_assign(v, limit) ==
    /\ wpc.op = "idle"
    /\ Len(calls) < limit
    /\ p_success' = v
    /\ wpc' = [op |-> "success", arg |-> v]
    /\ UNCHANGED <<p_failure, p_event, calls, rpc, rres, rblocked>>
    /\ UNCHANGED <<bvars, mvars, svars, gvars, hvars>>

\* failure(): self._failure = exception
failure_assign(e, limit) ==
    /\ wpc.op = "idle"
    /\ Len(calls) < limit
    /\ p_failure' = e
    /\ wpc' = [op |-> "failure", arg |-> e]
    /\ UNCHANGED <<p_success, p_event, calls, rpc, rres, rblocked>>
    /\ UNCHANGED <<bvars, mvars, svars, gvars, hvars>>

event_flag_unset == p_event

\* threading.Event.set(): the flag becomes true
event_flag_set == TRUE

\* success()/failure(): self._event.set(), after which the call returns
event_set ==
    /\ wpc.op # "idle"
    /\ p_event' = event_flag_set
    /\ calls' = Append(calls, wpc)
    /\ wpc' = Idle
    /\ UNCHANGED <<p_success, p_failure, rpc, rres, rblocked>>
    /\ UNCHANGED <<bvars, mvars, svars, gvars, hvars>>

\* a reader thread calls get()
get_call(r) ==
    /\ rpc[r] \in {"idle", "done"}
    /\ rpc' = [rpc EXCEPT ![r] = "wait"]
    /\ rblocked' = [rblocked EXCEPT ![r] = ~p_event]
    /\ UNCHANGED <<p_success, p_failure, p_event, wpc, calls, rres>>
    /\ UNCHANGED <<bvars, mvars, svars, gvars, hvars>>

event_wait_nowait == TRUE

\* get(): self._event.wait() returns once the flag is set
event_wait == p_event

get_wait(r) ==
    /\ rpc[r] = "wait"
    /\ event_wait
    /\ rpc' = [rpc EXCEPT ![r] = "test"]
    /\ UNCHANGED <<p_success, p_failure, p_event, wpc, calls, rres, rblocked>>
    /\ UNCHANGED <<bvars, mvars, svars, gvars, hvars>>

failure_test_never == FALSE

\* get(): if self._failure:
failure_test == Truthy(p_failure)

get_test(r) ==
    /\ rpc[r] = "test"
    /\ rpc' = [rpc EXCEPT ![r] = IF failure_test THEN "raise" ELSE "return"]
    /\ UNCHANGED <<p_success, p_failure, p_event, wpc, calls, rres, rblocked>>
    /\ UNCHANGED <<bvars, mvars, svars, gvars, hvars>>

\* get(): raise self._failure
get_raise(r) ==
    /\ rpc[r] = "raise"
    /\ rres' = [rres EXCEPT ![r] = [kind |-> "raise", val |-> p_failure]]
    /\ rpc' = [rpc EXCEPT ![r] = "done"]
    /\ UNCHANGED <<p_success, p_failure, p_event, wpc, calls, rblocked>>
    /\ UNCHANGED <<bvars, mvars, svars, gvars, hvars>>

\* get(): return self._success
get_return(r) ==
    /\ rpc[r] = "return"
    /\ rres' = [rres EXCEPT ![r] = [kind |-> "return", val |-> p_success]]
    /\ rpc' = [rpc EXCEPT ![r] = "done"]
    /\ UNCHANGED <<p_success, p_failure, p_event, wpc, calls, rblocked>>
    /\ UNCHANGED <<bvars, mvars, svars, gvars, hvars>>

Get(r) ==
    \/ get_call(r)
    \/ get_wait(r)
    \/ get_test(r)
    \/ get_raise(r)
    \/ get_return(r)

\* Any sequence of success/failure calls: the class guards none of them.
PromiseNext ==
    \/ \E v \in Values : success_assign(v, MaxCalls)
    \/ \E e \in Errors : failure_assign(e, MaxCalls)
    \/ event_set
    \/ \E r \in Readers : Get(r)

\* The documented use: one writer calls success or failure exactly once.
OneShotNext ==
    \/ \E v \in Values : success_assign(v, 1)
    \/ \E e \in Errors : failure_assign(e, 1)
    \/ event_set
    \/ \E r \in Readers : Get(r)


(***************************************************************************)
(* The build: subjects, product types, selectors and registered tasks.     *)
(***************************************************************************)
SubjectSeq == <<"S1", "S2">>
Subjects == {SubjectSeq[i] : i \in 1..Len(SubjectSeq)}
Products == {"RawText", "UpperText", "Classpath"}
\* A requested configuration: no configuration, or a configuration object.
Configs == {None, "raw_config"}

\* type(consumed_product): the product type of a configuration object
TypeOf(configuration) == "RawText"

\* Select(selector, product) and the three selector kinds
Select(selector, product) == [selector |-> selector, product |-> product]
SelectSubject == [kind |-> "Subject", arg |-> None]
SelectDependencies(configuration) == [kind |-> "Dependencies", arg |-> configuration]
SelectLiteralSubject(address) == [kind |-> "LiteralSubject", arg |-> address]

\* The (output type, input clause, task) triples a Planners may be built from.
TaskPool ==
    << [output |-> "UpperText", task |-> "Uppercase",
        clause |-> <<Select(SelectSubject, "RawText")>>],
       [output |-> "UpperText", task |-> "Shout",
        clause |-> <<Select(SelectSubject, "RawText")>>],
       [output |-> "Classpath", task |-> "Link",
        clause |-> <<Select(SelectSubject, "UpperText"),
                     Select(SelectDependencies(None), "Classpath")>>],
       [output |-> "RawText", task |-> "Regen",
        clause |-> <<Select(SelectSubject, "UpperText")>>] >>

\* The tasks none of whose inputs is made from its own output.
LayeredTasks == {TaskPool[1], TaskPool[2], TaskPool[3]}

\* The declared dependencies of each subject (the build graph).
iter_dependencies(subject, configuration) ==
    IF subject = "S1" THEN <<"S2">> ELSE <<>>

\* build_graph.resolve(address): addresses name subjects
resolve(address) == address

(***************************************************************************)
(* ProductGraph                                                            *)
(***************************************************************************)
SourceTask(task, clause) ==
    [kind |-> "Task", task |-> task, clause |-> clause, value |-> None, id |-> 0]
SourceNative(value) ==
    [kind |-> "Native", task |-> None, clause |-> <<>>, value |-> value, id |-> 0]
\* SourceNone and SourceOR define no equality: every instance is its own value.
SourceNone(id) ==
    [kind |-> "None", task |-> None, clause |-> <<>>, value |-> None, id |-> id]
SourceOR(id) ==
    [kind |-> "OR", task |-> None, clause |-> <<>>, value |-> None, id |-> id]

Node(subject, product, source) ==
    [subject |-> subject, product |-> product, source |-> source]

\* parent = None in product_graph
NoNode == Node(None, None, SourceNone(0))

NodeKey(node) == <<node.subject, node.product>>

\* ProductGraph(): no nodes, no adjacencies. fresh numbers the SourceNone and
\* SourceOR instances created so far; err is the exception that ended construction.
EmptyGraph ==
    [nodes |-> <<>>, promises |-> <<>>, adj |-> <<>>, fresh |-> 1, err |-> None]

SeqToSet(seq) == {seq[i] : i \in 1..Len(seq)}

Raise(g, e) == [g EXCEPT !.err = e]

exists_node(g, node) == node \in SeqToSet(g.nodes)

add_node_overwrite(g, node, promise) ==
    IF g.err # None THEN g
    ELSE IF exists_node(g, node)
    THEN [g EXCEPT !.promises =
             [i \in 1..Len(@) |-> IF g.nodes[i] = node THEN promise ELSE @[i]]]
    ELSE [g EXCEPT !.nodes = Append(@, node), !.promises = Append(@, promise)]

\* add_node: a node is registered once, with its Promise
add_node(g, node, promise) ==
    IF g.err # None THEN g
    ELSE IF exists_node(g, node) THEN Raise(g, "ValueError")
    ELSE [g EXCEPT !.nodes = Append(@, node), !.promises = Append(@, promise)]

add_edge_src_only(g, src, dst) ==
    IF g.err # None THEN g
    ELSE IF ~exists_node(g, src) THEN Raise(g, "ValueError")
    ELSE IF <<src, dst>> \in SeqToSet(g.adj) THEN g
    ELSE [g EXCEPT !.adj = Append(@, <<src, dst>>)]

\* add_edge: both endpoints must be registered
add_edge(g, src, dst) ==
    IF g.err # None THEN g
    ELSE IF ~exists_node(g, src) THEN Raise(g, "ValueError")
    ELSE IF ~exists_node(g, dst) THEN Raise(g, "ValueError")
    ELSE IF <<src, dst>> \in SeqToSet(g.adj) THEN g
    ELSE [g EXCEPT !.adj = Append(@, <<src, dst>>)]

\* self._adjacencies[node]: the OrderedSet of the node's dependencies, in the
\* order their edges were added
Adjacent(g, node) ==
    LET edges == SelectSeq(g.adj, LAMBDA e : e[1] = node)
    IN  [i \in 1..Len(edges) |-> edges[i][2]]

\* What an evaluation raises instead of returning a state. RecursionError is
\* the interpreter's answer to a _node_state call that re-enters itself.
Exceptions == {"RecursionError", "ValueError"}

RECURSIVE node_state(_, _, _)
\* The satisfiability of a node, read off its _node_state. path holds the
\* nodes whose _node_state calls are on the call stack.
is_satisfiable(g, node, path) == node_state(g, node, path) = "True"

Bool(b) == IF b THEN "True" ELSE "False"

RECURSIVE satisfied_deps(_, _, _, _, _)
\* any(satisfied_deps) (stop = TRUE) and all(satisfied_deps) (stop = FALSE) over
\* the generator of line 450: the dependencies are asked in order, up to the
\* first whose answer is stop; an exception raised by one of them ends it
satisfied_deps(g, deps, i, path, stop) ==
    IF i > Len(deps) THEN Bool(~stop)
    ELSE LET answered(state) ==
                IF state \in Exceptions THEN state
                ELSE IF (state = "True") = stop THEN Bool(stop)
                ELSE satisfied_deps(g, deps, i + 1, path, stop)
         IN  answered(node_state(g, deps[i], path))

node_state_none_satisfied(g, node, path) ==
    IF node.source.kind \in {"None", "Native"} THEN "True"
    ELSE IF node \in path THEN "RecursionError"
    ELSE satisfied_deps(g, Adjacent(g, node), 1, path \cup {node},
                        node.source.kind = "OR")

node_state_none_by_deps(g, node, path) ==
    IF node.source.kind = "Native" THEN "True"
    ELSE IF node \in path THEN "RecursionError"
    ELSE satisfied_deps(g, Adjacent(g, node), 1, path \cup {node},
                        node.source.kind = "OR")

node_state_or_all(g, node, path) ==
    IF node.source.kind = "None" THEN "Unsatisfiable"
    ELSE IF node.source.kind = "Native" THEN "True"
    ELSE IF node \in path THEN "RecursionError"
    ELSE satisfied_deps(g, Adjacent(g, node), 1, path \cup {node}, FALSE)

node_state_task_any(g, node, path) ==
    IF node.source.kind = "None" THEN "Unsatisfiable"
    ELSE IF node.source.kind = "Native" THEN "True"
    ELSE IF node \in path THEN "RecursionError"
    ELSE satisfied_deps(g, Adjacent(g, node), 1, path \cup {node}, TRUE)

\* _node_state, lines 438-458
node_state(g, node, path) ==
    IF node.source.kind = "None" THEN "Unsatisfiable"
    ELSE IF node.source.kind = "Native" THEN "True"
    ELSE IF node \in path THEN "RecursionError"
    ELSE IF node.source.kind = "OR"
    THEN satisfied_deps(g, Adjacent(g, node), 1, path \cup {node}, TRUE)
    ELSE IF node.source.kind = "Task"
    THEN satisfied_deps(g, Adjacent(g, node), 1, path \cup {node}, FALSE)
    ELSE "ValueError"

RECURSIVE consumes_product(_, _, _, _)
RECURSIVE consumes_deps(_, _, _, _, _)
\* consumes_product, lines 477-482: the dependencies in order, up to the first
\* that is of the type or consumes it
consumes_deps(g, deps, i, consumed_product, path) ==
    IF i > Len(deps) THEN "False"
    ELSE IF deps[i].product = TypeOf(consumed_product) THEN "True"
    ELSE LET answered(state) ==
                IF state = "False"
                THEN consumes_deps(g, deps, i + 1, consumed_product, path)
                ELSE state
         IN  answered(consumes_product(g, deps[i], consumed_product, path))

\* consumes_product, lines 469-482. path holds the nodes whose consumes_product
\* calls are on the call stack.
consumes_product(g, node, consumed_product, path) ==
    IF consumed_product = None THEN "True"
    ELSE IF node \in path THEN "RecursionError"
    ELSE consumes_deps(g, Adjacent(g, node), 1, consumed_product, path \cup {node})

\* What the generator sources_for has given: the sources it yielded and the
\* exception that ended it, if one did.
Yielded(sources, err) == [yielded |-> sources, err |-> err]

RECURSIVE scan_nodes(_, _, _, _, _, _)
\* sources_for, lines 486-491: each registered node in turn
scan_nodes(g, i, subject, product, consumed_product, out) ==
    IF i > Len(g.nodes) THEN Yielded(out, None)
    ELSE LET node == g.nodes[i]
             consumed(state) ==
                IF state \in Exceptions THEN Yielded(out, state)
                ELSE scan_nodes(g, i + 1, subject, product, consumed_product,
                                IF state = "True" THEN Append(out, node.source)
                                ELSE out)
             satisfiable(state) ==
                IF state \in Exceptions THEN Yielded(out, state)
                ELSE consumed(IF state = "True"
                              THEN consumes_product(g, node, consumed_product, {})
                              ELSE "False")
         IN  satisfiable(IF node.source.kind = "OR"
                            \/ NodeKey(node) # <<subject, product>>
                         THEN "False"
                         ELSE node_state(g, node, {}))

sources_for_with_or(g, subject, product, consumed_product) ==
    LET matching == SelectSeq(g.nodes, LAMBDA node :
                        /\ NodeKey(node) = <<subject, product>>
                        /\ is_satisfiable(g, node, {}))
    IN  Yielded([i \in 1..Len(matching) |-> matching[i].source], None)

\* sources_for: the sources of the satisfiable non-OR nodes at (subject, product)
\* that consume the requested configuration, in node order
sources_for(g, subject, product, consumed_product) ==
    scan_nodes(g, 1, subject, product, consumed_product, <<>>)

\* products_for: the products some satisfiable node offers for the subject
products_for(g, subject) ==
    {node.product : node \in {n \in SeqToSet(g.nodes) :
                                 n.subject = subject /\ is_satisfiable(g, n, {})}}

\* Promise() and promise.success(value), for the Promise a node is registered with
NewPromise == [success |-> None, failure |-> None, event |-> FALSE]

promise_success(promise, value) == [promise EXCEPT !.success = value, !.event = TRUE]

(***************************************************************************)
(* A caller of the ProductGraph's methods: any nodes, any edges.           *)
(***************************************************************************)
\* The nodes the caller holds: an unproducible, a native, a task-sourced and an
\* alternatives node.
GraphNodes ==
    { Node("S1", "RawText", SourceNone(1)),
      Node("S2", "RawText", SourceNative("RawText")),
      Node("S1", "UpperText", SourceTask("Uppercase", TaskPool[1].clause)),
      Node("S1", "UpperText", SourceOR(2)) }

\* The Promises the caller registers nodes with.
GraphPromises == {NewPromise, promise_success(NewPromise, "RawText")}

NoCall == [op |-> "none", src |-> NoNode, dst |-> NoNode]

GraphInit ==
    /\ graph_call = NoCall
    /\ graph_res = None

GraphSize == Len(product_graph.nodes) + Len(product_graph.adj)

\* The Promise a node is first registered with, as _expand_node leaves it:
\* succeeded for a native source, unset otherwise.
PromiseFor(node) ==
    IF node.source.kind = "Native"
    THEN promise_success(NewPromise, node.source.value)
    ELSE NewPromise

\* product_graph.add_node(node, promise); a call for a registered node may
\* bring any Promise
graph_add_node(node, promise) ==
    /\ phase = "new"
    /\ GraphSize < MaxGraphSize
    /\ exists_node(product_graph, node) \/ promise = PromiseFor(node)
    /\ LET g == add_node(product_graph, node, promise)
       IN  /\ product_graph' = [g EXCEPT !.err = None]
           /\ graph_res' = g.err
    /\ graph_call' = [op |-> "add_node", src |-> node, dst |-> NoNode]
    /\ UNCHANGED <<native, tasks, root_products, phase, pvars, mvars, svars, hvars>>

\* product_graph.add_edge(src, dst)
graph_add_edge(src, dst) ==
    /\ phase = "new"
    /\ GraphSize < MaxGraphSize
    /\ LET g == add_edge(product_graph, src, dst)
       IN  /\ product_graph' = [g EXCEPT !.err = None]
           /\ graph_res' = g.err
    /\ graph_call' = [op |-> "add_edge", src |-> src, dst |-> dst]
    /\ UNCHANGED <<native, tasks, root_products, phase, pvars, mvars, svars, hvars>>

\* product_graph._node_state(node)
graph_node_state(node) ==
    /\ graph_res' = node_state(product_graph, node, {})
    /\ graph_call' = [op |-> "_node_state", src |-> node, dst |-> NoNode]
    /\ UNCHANGED <<bvars, pvars, mvars, svars, hvars>>

GraphNext ==
    \/ \E node \in GraphNodes, promise \in GraphPromises : graph_add_node(node, promise)
    \/ \E src \in GraphNodes, dst \in GraphNodes : graph_add_edge(src, dst)
    \/ \E node \in GraphNodes : graph_node_state(node)

\* list(product_graph.sources_for(subject, product, consumed_product))
graph_sources_for(subject, product, consumed_product) ==
    /\ graph_res' = sources_for(product_graph, subject, product, consumed_product)
    /\ graph_call' = [op |-> "sources_for", src |-> NoNode, dst |-> NoNode,
                      key |-> <<subject, product, consumed_product>>]
    /\ UNCHANGED <<bvars, pvars, mvars, svars, hvars>>

\* The caller builds a graph and asks it for the sources at the keys of its nodes.
QueryNext ==
    \/ \E node \in GraphNodes, promise \in GraphPromises : graph_add_node(node, promise)
    \/ \E src \in GraphNodes, dst \in GraphNodes : graph_add_edge(src, dst)
    \/ \E node \in GraphNodes, consumed_product \in Configs :
          graph_sources_for(node.subject, node.product, consumed_product)

(***************************************************************************)
(* Planners                                                                *)
(***************************************************************************)
\* native_products_for_subject: the products concretely present on a subject,
\* each named by its type
native_products_for_subject(subject) ==
    SelectSeq(<<"RawText", "UpperText", "Classpath">>,
              LAMBDA product : product \in native[subject])

\* self._tasks[product_type]: the (task, clause) pairs indexed by output type
tasks_by_output(product_type) ==
    SelectSeq(TaskPool, LAMBDA t : t \in tasks /\ t.output = product_type)

node_sources_or_nothing(fresh, subject, product_type) ==
    LET natives == SelectSeq(native_products_for_subject(subject),
                             LAMBDA product : product = product_type)
        registered == tasks_by_output(product_type)
    IN  [i \in 1..Len(natives) |-> SourceNative(natives[i])]
        \o [i \in 1..Len(registered) |->
               SourceTask(registered[i].task, registered[i].clause)]

\* _node_sources: native sources, then task sources, else one SourceNone
node_sources(fresh, subject, product_type) ==
    LET natives == SelectSeq(native_products_for_subject(subject),
                             LAMBDA product : product = product_type)
        registered == tasks_by_output(product_type)
        sources ==
            [i \in 1..Len(natives) |-> SourceNative(natives[i])]
            \o [i \in 1..Len(registered) |->
                   SourceTask(registered[i].task, registered[i].clause)]
    IN  IF sources # <<>> THEN sources ELSE <<SourceNone(fresh)>>

\* _select_subjects: the subjects a selector selects for a subject
select_subjects(selector, subject) ==
    IF selector.kind = "Subject" THEN <<subject>>
    ELSE IF selector.kind = "Dependencies"
    THEN iter_dependencies(subject, selector.arg)
    ELSE <<resolve(selector.arg)>>

RECURSIVE expand_node(_, _)
RECURSIVE expand_sources(_, _, _, _, _, _)
RECURSIVE expand_subjects(_, _, _, _, _)
RECURSIVE expand_clause(_, _, _)

expand_sources_unlinked(g, parent, dep_subject, product, dep_sources, i) ==
    IF g.err # None \/ i > Len(dep_sources) THEN g
    ELSE expand_sources(expand_node(g, Node(dep_subject, product, dep_sources[i])),
                        parent, dep_subject, product, dep_sources, i + 1)

\* _expand_node, lines 603-608: populate each dependency node, then link it
expand_sources(g, parent, dep_subject, product, dep_sources, i) ==
    IF g.err # None \/ i > Len(dep_sources) THEN g
    ELSE LET dep_node == Node(dep_subject, product, dep_sources[i])
             g1 == expand_node(g, dep_node)
             g2 == add_edge(g1, parent, dep_node)
         IN  expand_sources(g2, parent, dep_subject, product, dep_sources, i + 1)

\* _expand_node, lines 596-602: the sources of one selected subject, under an
\* OR node when there are several
expand_subjects(g, node, dep_select, dep_subjects, j) ==
    IF g.err # None \/ j > Len(dep_subjects) THEN g
    ELSE LET dep_subject == dep_subjects[j]
             dep_sources == node_sources(g.fresh, dep_subject, dep_select.product)
             g0 == [g EXCEPT !.fresh = @ + 2]
             or_node == Node(dep_subject, dep_select.product, SourceOR(g.fresh + 1))
             g1 == IF Len(dep_sources) > 1 THEN add_edge(g0, node, or_node) ELSE g0
             parent == IF Len(dep_sources) > 1 THEN or_node ELSE node
             g2 == expand_sources(g1, parent, dep_subject, dep_select.product,
                                  dep_sources, 1)
         IN  expand_subjects(g2, node, dep_select, dep_subjects, j + 1)

\* _expand_node, line 595: each Select of the anded clause
expand_clause(g, node, k) ==
    IF g.err # None \/ k > Len(node.source.clause) THEN g
    ELSE LET dep_select == node.source.clause[k]
             dep_subjects == select_subjects(dep_select.selector, node.subject)
             g1 == expand_subjects(g, node, dep_select, dep_subjects, 1)
         IN  expand_clause(g1, node, k + 1)

expand_node_unguarded(g, node) ==
    IF g.err # None THEN g
    ELSE IF node.source.kind = "None" THEN add_node(g, node, NewPromise)
    ELSE IF node.source.kind = "Native"
    THEN add_node(g, node, promise_success(NewPromise, node.source.value))
    ELSE IF node.source.kind = "Task"
    THEN expand_clause(add_node(g, node, NewPromise), node, 1)
    ELSE Raise(g, "ValueError")

\* _expand_node (called as _populate_node): register the node and, for a task
\* source, its dependencies; a registered node is left alone
expand_node(g, node) ==
    IF g.err # None THEN g
    ELSE IF exists_node(g, node) THEN g
    ELSE IF node.source.kind = "None" THEN add_node(g, node, NewPromise)
    ELSE IF node.source.kind = "Native"
    THEN add_node(g, node, promise_success(NewPromise, node.source.value))
    ELSE IF node.source.kind = "Task"
    THEN expand_clause(add_node(g, node, NewPromise), node, 1)
    ELSE Raise(g, "ValueError")

RECURSIVE root_sources(_, _, _, _, _, _)
RECURSIVE root_pairs(_, _, _, _)

\* product_graph, lines 544-548: populate each source node of a root pair and
\* link it under the OR parent when there is one
root_sources(g, parent, subject, product, dep_sources, i) ==
    IF g.err # None \/ i > Len(dep_sources) THEN g
    ELSE LET dep_node == Node(subject, product, dep_sources[i])
             g1 == expand_node(g, dep_node)
             g2 == IF parent # NoNode THEN add_edge(g1, parent, dep_node) ELSE g1
         IN  root_sources(g2, parent, subject, product, dep_sources, i + 1)

\* product_graph, lines 537-543: every (root subject, root product) pair
root_pairs(g, subjects, products, n) ==
    IF g.err # None \/ n > Len(subjects) * Len(products) THEN g
    ELSE LET subject == subjects[((n - 1) \div Len(products)) + 1]
             product == products[((n - 1) % Len(products)) + 1]
             dep_sources == node_sources(g.fresh, subject, product)
             g0 == [g EXCEPT !.fresh = @ + 2]
             parent == IF Len(dep_sources) > 1
                       THEN Node(subject, product, SourceOR(g.fresh + 1))
                       ELSE NoNode
             g1 == root_sources(g0, parent, subject, product, dep_sources, 1)
         IN  root_pairs(g1, subjects, products, n + 1)

\* Planners.product_graph(build_graph, root_subjects, root_products)
planners_product_graph(root_subjects, products) ==
    root_pairs(EmptyGraph, root_subjects, products, 1)

(***************************************************************************)
(* Plan and ProductMapper                                                  *)
(***************************************************************************)
\* The promise-key Promise(product_type, subject, configuration)
PromiseKey(product_type, subject, configuration) ==
    <<product_type, subject, configuration>>

Keys == Products \X Subjects \X Configs

\* Plan(func_or_task_type, subjects, **inputs): the inputs are the promise-keys
\* they embed and the remaining literal arguments
Plan(func, subjects, promises, args) ==
    [func |-> func, subjects |-> subjects, promises |-> promises, args |-> args]

\* promised() of an unregistered promise-key: None
NoPlan == Plan(None, {}, {}, <<>>)

\* ProductMapper(graph, product_graph): both tables empty
NewMapper ==
    [promises |-> [key \in Keys |-> NoPlan], by_planner |-> <<>>, queries |-> 0]

\* promised: the plan registered for a promise-key, or None
promised(m, key) == m.promises[key]

\* What a promise() call returned or raised.
Returned(key) ==
    [kind |-> "ok", key |-> key, product_type |-> None, subject |-> None,
     plans |-> {}]
Raised(kind, product_type, subject, plans) ==
    [kind |-> kind, key |-> <<>>, product_type |-> product_type,
     subject |-> subject, plans |-> plans]
NoResult == Raised("none", None, None, {})

\* How a planner answers plan(): the subjects its Plan covers for the requested
\* subject.
CoverModes == {"single", "all", "other"}
Cover(cov, subject) ==
    IF cov = "single" THEN {subject}
    ELSE IF cov = "all" THEN Subjects
    ELSE Subjects \ {subject}

\* _plans_by_product_type_by_planner[planner][product_type].add(plan): an
\* OrderedSet per task planner; every NoPlanner() is a key of its own
by_planner_add(entries, planner, product_type, plan) ==
    LET entry == [planner |-> planner, product_type |-> product_type, plan |-> plan]
    IN  IF planner # "NoPlanner" /\ entry \in SeqToSet(entries) THEN entries
        ELSE Append(entries, entry)

register_promises_primary_only(m, product_type, plan, primary_subject, configuration) ==
    LET covered == plan.subjects \cap {primary_subject}
        m1 == [m EXCEPT !.promises =
                  [key \in Keys |->
                      IF key[1] = product_type /\ key[2] \in covered
                         /\ key[3] = configuration
                      THEN plan ELSE @[key]]]
    IN  [m |-> m1,
         primary_promise |->
             IF primary_subject \in plan.subjects
             THEN PromiseKey(product_type, primary_subject, configuration)
             ELSE <<>>]

\* _register_promises: index the plan by each of its subjects; the result's
\* primary_promise is <<>> when InvalidRegistrationError is raised
register_promises(m, product_type, plan, primary_subject, configuration) ==
    LET m1 == [m EXCEPT !.promises =
                  [key \in Keys |->
                      IF key[1] = product_type /\ key[2] \in plan.subjects
                         /\ key[3] = configuration
                      THEN plan ELSE @[key]]]
    IN  [m |-> m1,
         primary_promise |->
             IF primary_subject \in plan.subjects
             THEN PromiseKey(product_type, primary_subject, configuration)
             ELSE <<>>]

never_resolved(m, key) == FALSE

\* promise, lines 803-806: the promise-key already has a plan
already_resolved(m, key) == promised(m, key) # NoPlan

RECURSIVE promise(_, _, _, _, _)
RECURSIVE plan_subjects(_, _, _, _, _, _)
RECURSIVE plan_clause(_, _, _, _, _)
RECURSIVE collect_plans(_, _, _, _, _, _, _)

\* planner.plan: one promise per selected dependency subject of a Select
plan_subjects(st, dep_subjects, j, product, subject, cov) ==
    IF st.err.kind # "none" \/ j > Len(dep_subjects) THEN st
    ELSE LET promised_input(r) ==
                IF r.res.kind = "ok"
                THEN [st EXCEPT !.m = r.m, !.keys = @ \cup {r.res.key}]
                ELSE [st EXCEPT !.m = r.m, !.err = r.res]
         IN  plan_subjects(promised_input(promise(st.m, dep_subjects[j], product,
                                                  None, cov)),
                           dep_subjects, j + 1, product, subject, cov)

\* planner.plan: the Selects of the task's clause, in order
plan_clause(st, clause, k, subject, cov) ==
    IF st.err.kind # "none" \/ k > Len(clause) THEN st
    ELSE LET dep_subjects == select_subjects(clause[k].selector, subject)
             st1 == plan_subjects(st, dep_subjects, 1, clause[k].product, subject, cov)
         IN  plan_clause(st1, clause, k + 1, subject, cov)

\* source.planner.plan(product_mapper, product_type, subject, configuration):
\* the task promises its inputs through the mapper and returns one Plan
planner_plan(m, source, product_type, subject, configuration, cov) ==
    LET planned(st) ==
            [m |-> st.m, err |-> st.err,
             plan |-> IF st.err.kind # "none" THEN NoPlan
                      ELSE Plan(source.task, Cover(cov, subject), st.keys, <<>>)]
    IN  planned(plan_clause([m |-> m, keys |-> {}, err |-> NoResult],
                            source.clause, 1, subject, cov))

\* promise, lines 810-825: one Plan per source
collect_plans(st, sources, i, subject, product_type, configuration, cov) ==
    IF st.err.kind # "none" \/ i > Len(sources) THEN st
    ELSE LET source == sources[i]
             st1 ==
                IF source.kind = "Native"
                THEN [st EXCEPT !.plans = Append(@,
                        [planner |-> "NoPlanner",
                         plan |-> Plan("lift_native_product", {subject}, {},
                                       <<subject, product_type>>)])]
                ELSE IF source.kind = "Task"
                THEN LET planned(r) ==
                            IF r.err.kind # "none"
                            THEN [st EXCEPT !.m = r.m, !.err = r.err]
                            ELSE IF r.plan # NoPlan
                            THEN [st EXCEPT !.m = r.m, !.plans = Append(@,
                                    [planner |-> source.task, plan |-> r.plan])]
                            ELSE [st EXCEPT !.m = r.m]
                     IN  planned(planner_plan(st.m, source, product_type, subject,
                                              configuration, cov))
                ELSE [st EXCEPT !.err = Raised("ValueError", product_type, subject, {})]
         IN  collect_plans(st1, sources, i + 1, subject, product_type,
                           configuration, cov)

\* ProductMapper.promise(subject, product_type, configuration): the mapper after
\* the call and what the call returned or raised
promise(m, subject, product_type, configuration, cov) ==
    LET key == PromiseKey(product_type, subject, configuration)
    IN  IF already_resolved(m, key) THEN [m |-> m, res |-> Returned(key)]
        ELSE
        LET m0 == [m EXCEPT !.queries = @ + 1]
            registered(reg, entry) ==
                IF reg.primary_promise = <<>>
                THEN [m |-> reg.m,
                      res |-> Raised("SchedulingError", product_type, subject, {})]
                ELSE [m |-> [reg.m EXCEPT !.by_planner =
                                by_planner_add(@, entry.planner, product_type,
                                               entry.plan)],
                      res |-> Returned(reg.primary_promise)]
            collected(st, raised) ==
                IF st.err.kind # "none" THEN [m |-> st.m, res |-> st.err]
                ELSE IF raised # None
                THEN [m |-> st.m, res |-> Raised(raised, product_type, subject, {})]
                ELSE IF Len(st.plans) > 1
                THEN [m |-> st.m,
                      res |-> Raised("ConflictingProducersError", product_type, subject,
                                     {st.plans[i].plan : i \in 1..Len(st.plans)})]
                ELSE IF st.plans = <<>>
                THEN [m |-> st.m,
                      res |-> Raised("NoProducersError", product_type, subject, {})]
                ELSE registered(register_promises(st.m, product_type, st.plans[1].plan,
                                                  subject, configuration),
                                st.plans[1])
            requested(sources) ==
                collected(collect_plans([m |-> m0, plans |-> <<>>, err |-> NoResult],
                                        sources.yielded, 1, subject, product_type,
                                        configuration, cov),
                          sources.err)
        IN  requested(sources_for(product_graph, subject, product_type, configuration))

(***************************************************************************)
(* The build request, LocalScheduler's graph construction and the calls    *)
(* made on the ProductMapper.                                              *)
(***************************************************************************)
RootProductChoices ==
    {<<"UpperText">>, <<"Classpath">>, <<"RawText", "UpperText", "Classpath">>}

BuildInit ==
    /\ native \in [Subjects -> SUBSET {"RawText"}]
    /\ tasks \in SUBSET LayeredTasks
    /\ root_products \in RootProductChoices
    /\ phase = "new"
    /\ product_graph = EmptyGraph

MapperInit ==
    /\ mapper = NewMapper
    /\ last_call = <<>>
    /\ last_res = NoResult
    /\ last_hit = FALSE
    /\ last_queries = 0
    /\ ncalls = 0

\* LocalScheduler.__init__, lines 879-889: the product graph for the root
\* subjects and products, then a ProductMapper over it; an exception from
\* product_graph ends the construction
build_product_graph ==
    /\ phase = "new"
    /\ product_graph' = planners_product_graph(SubjectSeq, root_products)
    /\ phase' = IF product_graph'.err = None THEN "planning" ELSE "failed"
    /\ mapper' = NewMapper
    /\ UNCHANGED <<native, tasks, root_products, last_call, last_res, last_hit,
                   last_queries, ncalls, pvars, svars, gvars, hvars>>

\* A registry of any tasks, those that feed on their own output included.
ExpandInit ==
    /\ native \in [Subjects -> SUBSET {"RawText"}]
    /\ tasks \in SUBSET SeqToSet(TaskPool)
    /\ root_products \in RootProductChoices
    /\ phase = "new"
    /\ product_graph = EmptyGraph

\* self._expand_node(product_graph, build_graph, node) for a node of the
\* finished graph
graph_expand_node(node) ==
    /\ phase = "planning"
    /\ LET g == expand_node(product_graph, node)
       IN  /\ product_graph' = [g EXCEPT !.err = None]
           /\ graph_res' = g.err
    /\ graph_call' = [op |-> "_expand_node", src |-> node, dst |-> NoNode]
    /\ UNCHANGED <<native, tasks, root_products, phase, pvars, mvars, svars, hvars>>

\* The graph is built, then its nodes are evaluated and expanded again.
ExpandNext ==
    \/ build_product_graph
    \/ \E node \in SeqToSet(product_graph.nodes) :
          phase = "planning" /\ graph_node_state(node)
    \/ \E node \in SeqToSet(product_graph.nodes) : graph_expand_node(node)

\* A caller's product_mapper.promise(subject, product_type, configuration)
promise_call(subject, product_type, configuration, cov) ==
    /\ phase = "planning"
    /\ ncalls < MaxPromiseCalls
    /\ ncalls' = ncalls + 1
    /\ LET r == promise([mapper EXCEPT !.queries = 0], subject, product_type,
                        configuration, cov)
       IN  /\ mapper' = [r.m EXCEPT !.queries = 0]
           /\ last_res' = r.res
           /\ last_queries' = r.m.queries
    /\ last_call' = <<subject, product_type, configuration>>
    /\ last_hit' = (promised(mapper, PromiseKey(product_type, subject, configuration))
                       # NoPlan)
    /\ UNCHANGED <<bvars, pvars, svars, gvars, hvars>>

MapperNext ==
    \/ build_product_graph
    \/ \E subject \in Subjects, product_type \in Products,
          configuration \in Configs, cov \in CoverModes :
            promise_call(subject, product_type, configuration, cov)

(***************************************************************************)
(* LocalScheduler's root promises and ExecutionGraph.walk                  *)
(***************************************************************************)
Walkers == 1..NumWalkers

ProductSeq == <<"RawText", "UpperText", "Classpath">>
ConfigSeq == <<None, "raw_config">>

IndexOf(seq, x) == CHOOSE i \in 1..Len(seq) : seq[i] = x

\* The place of a promise-key in this process's set iteration order.
KeyRank(key) ==
    LET rank == (IndexOf(ProductSeq, key[1]) * Len(SubjectSeq)
                    + IndexOf(SubjectSeq, key[2])) * Len(ConfigSeq)
                    + IndexOf(ConfigSeq, key[3])
    IN  IF hash_order = "up" THEN rank ELSE 0 - rank

RECURSIVE InOrder(_)
InOrder(keys) ==
    IF keys = {} THEN <<>>
    ELSE LET first == CHOOSE k \in keys : \A o \in keys : KeyRank(k) <= KeyRank(o)
         IN  <<first>> \o InOrder(keys \ {first})

plan_promises_none(plan) == <<>>

\* Plan.promises, as _walk_plan iterates it: the memoized set of the
\* promise-keys embedded in the plan's inputs
plan_promises(plan) == InOrder(plan.promises)

\* abandoned is history: an earlier generator of this caller was dropped after
\* it had yielded some pairs and before it ended.
NoWalk ==
    [st |-> "none", plans |-> {}, ri |-> 1, stack |-> <<>>, out |-> <<>>,
     abandoned |-> FALSE]

walk_plans_kept(w) == walker[w].plans

\* walk, line 681: plans = set(), one per call of walk()
walk_plans(w) == {}

frame_done_at_once(frame) == TRUE

\* _walk_plan, lines 690-693: the pair is yielded when the loop over the
\* plan's promises has ended
frame_done(frame) == frame.todo = <<>>

\* _walk_plan, lines 687-689: the plan promised, entered unless seen before;
\* an unregistered promise-key gives None, which has no promises
walk_plan(ws, promise_key) ==
    LET plan == promised(mapper, promise_key)
    IN  IF plan \in ws.plans THEN ws
        ELSE IF plan = NoPlan
        THEN [ws EXCEPT !.st = "AttributeError", !.plans = @ \cup {plan}]
        ELSE [ws EXCEPT !.plans = @ \cup {plan},
                        !.stack = Append(@, [promise |-> promise_key, plan |-> plan,
                                             todo |-> plan_promises(plan)])]

RECURSIVE advance(_)
\* The generator runs from where it was suspended to its next yield, or to
\* its end: walk, lines 682-684, and the _walk_plan frames under it.
advance(ws) ==
    IF ws.st # "active" THEN ws
    ELSE IF ws.stack = <<>>
    THEN IF ws.ri > Len(root_promises) THEN [ws EXCEPT !.st = "done"]
         ELSE advance(walk_plan([ws EXCEPT !.ri = @ + 1], root_promises[ws.ri]))
    ELSE LET n == Len(ws.stack)
             top == ws.stack[n]
         IN  IF frame_done(top)
             THEN [ws EXCEPT !.stack = SubSeq(@, 1, n - 1),
                             !.out = Append(@, [promise |-> top.promise,
                                                plan |-> top.plan])]
             ELSE advance(walk_plan([ws EXCEPT !.stack[n].todo = Tail(@)],
                                    Head(top.todo)))

SchedInit ==
    /\ root_promises = <<>>
    /\ walker = [w \in Walkers |-> NoWalk]

\* The order in which this process iterates a set of product types.
ProductOrder ==
    IF hash_order = "up" THEN ProductSeq
    ELSE [i \in 1..Len(ProductSeq) |-> ProductSeq[Len(ProductSeq) + 1 - i]]

relevant_products_all(subject) ==
    SelectSeq(ProductOrder, LAMBDA product : product \in SeqToSet(root_products))

\* line 894: root_products & set(product_graph.products_for(subject)), which
\* iterates the right-hand set and keeps what root_products contains
relevant_products(subject) ==
    SelectSeq(ProductOrder,
              LAMBDA product : /\ product \in products_for(product_graph, subject)
                               /\ product \in SeqToSet(root_products))

RECURSIVE subject_promises(_, _, _, _)
\* lines 895-896: one promise per relevant product of a root subject; an
\* exception ends the construction
subject_promises(st, subject, products, k) ==
    IF st.err.kind # "none" \/ k > Len(products) THEN st
    ELSE LET promised_root(r) ==
                IF r.res.kind = "ok"
                THEN [st EXCEPT !.m = r.m, !.roots = Append(@, r.res.key)]
                ELSE [st EXCEPT !.m = r.m, !.err = r.res]
         IN  subject_promises(promised_root(promise(st.m, subject, products[k], None,
                                                    cover)),
                              subject, products, k + 1)

RECURSIVE root_promise_pairs(_, _)
\* LocalScheduler.__init__, lines 892-896: the root subjects in order
root_promise_pairs(st, n) ==
    IF st.err.kind # "none" \/ n > Len(SubjectSeq) THEN st
    ELSE root_promise_pairs(subject_promises(st, SubjectSeq[n],
                                             relevant_products(SubjectSeq[n]), 1),
                            n + 1)

\* LocalScheduler.__init__, lines 891-897
resolve_root_promises ==
    /\ phase = "planning"
    /\ LET st == root_promise_pairs([m |-> mapper, roots |-> <<>>, err |-> NoResult], 1)
       IN  /\ mapper' = [st.m EXCEPT !.queries = 0]
           /\ last_res' = st.err
           /\ root_promises' = IF st.err.kind = "none" THEN st.roots ELSE <<>>
           /\ phase' = IF st.err.kind = "none" THEN "constructed" ELSE "failed"
    /\ UNCHANGED <<native, tasks, root_products, product_graph, last_call, last_hit,
                   last_queries, ncalls, cover, hash_order, walker, pvars, gvars, hvars>>

\* ExecutionGraph(scheduler.root_promises(), product_mapper)
execution_graph ==
    /\ phase = "constructed"
    /\ phase' = "scheduled"
    /\ UNCHANGED <<native, tasks, root_products, product_graph, mvars, svars, pvars,
                   gvars, hvars>>

\* A caller calls walk(): a new generator, whatever became of the earlier one
walk(w) ==
    /\ phase = "scheduled"
    /\ walker' = [walker EXCEPT ![w] =
                      [NoWalk EXCEPT !.st = "active",
                                     !.plans = walk_plans(w),
                                     !.abandoned = \/ walker[w].abandoned
                                                   \/ /\ walker[w].st = "active"
                                                      /\ walker[w].out # <<>>]]
    /\ UNCHANGED <<bvars, mvars, cover, hash_order, root_promises, pvars, gvars, hvars>>

\* The caller asks its generator for the next (promise, plan) pair
walk_next(w) ==
    /\ phase = "scheduled"
    /\ walker[w].st = "active"
    /\ walker' = [walker EXCEPT ![w] = advance(walker[w])]
    /\ UNCHANGED <<bvars, mvars, cover, hash_order, root_promises, pvars, gvars, hvars>>

\* No schedule() call has been made.
NoSchedule == [calls |-> 0, res |-> None, aggregated |-> 0]

ScheduleInit == sched = NoSchedule

\* The names a statement of schedule() can read: its parameter. The
\* product_mapper and root_promises of lines 889 and 892 are locals of __init__,
\* and the module binds neither name.
ScheduleScope == {"self"}

\* LocalScheduler.schedule(), lines 906-909: product_mapper.aggregate_plans(),
\* then ExecutionGraph(root_promises, product_mapper). Reading a name that is
\* not in scope raises NameError and ends the call.
schedule ==
    /\ phase = "constructed"
    /\ sched.calls < MaxScheduleCalls
    /\ IF {"product_mapper", "root_promises"} \subseteq ScheduleScope
       THEN /\ sched' = [calls |-> sched.calls + 1, res |-> "ExecutionGraph",
                         aggregated |-> sched.aggregated + 1]
            /\ phase' = "scheduled"
       ELSE /\ sched' = [sched EXCEPT !.calls = @ + 1, !.res = "NameError"]
            /\ phase' = phase
    /\ UNCHANGED <<native, tasks, root_products, product_graph, mvars, svars, pvars,
                   gvars, plan_args, plan_res, jvars, fvars>>

(***************************************************************************)
(* Plan: its inputs, its key, equality and hash, and bind.                 *)
(***************************************************************************)
\* The values a Plan's inputs are made of. A leaf is an object that is neither
\* a mapping nor an iterable (strings included), or a Promise; items holds a
\* list's or tuple's items in order, and a mapping's items in the order the
\* mapping iterates them.
Atom(v) == [t |-> "atom", v |-> v, items |-> <<>>]
PromiseOf(p) == [t |-> "Promise", v |-> p, items |-> <<>>]
List(items) == [t |-> "list", v |-> None, items |-> items]
Tuple(items) == [t |-> "tuple", v |-> None, items |-> items]
Mapping(items) == [t |-> "dict", v |-> None, items |-> items]
Item(key, value) == [t |-> "item", v |-> key, items |-> <<value>>]

\* isinstance(item, Promise), _is_mapping and _is_iterable, lines 237-243
is_promise(value) == value.t = "Promise"
is_mapping(value) == value.t = "dict"
is_iterable(value) == value.t \in {"list", "tuple"}

\* The names a mapping's keys are taken from, in their sort order.
KeyNames == <<"x", "y">>

\* sorted(...) of a mapping's (key, value) pairs: keys are unique, so the pairs
\* come in the order of their keys
Sorted(items) ==
    LET keyed(name) == SelectSeq(items, LAMBDA item : item.v = name)
    IN  keyed(KeyNames[1]) \o keyed(KeyNames[2])

RECURSIVE hashable(_)
hashable_unsorted(value) ==
    IF is_mapping(value)
    THEN Tuple([i \in 1..Len(value.items) |->
                  Tuple(<<Atom(value.items[i].v), hashable(value.items[i].items[1])>>)])
    ELSE IF is_iterable(value)
    THEN Tuple([i \in 1..Len(value.items) |-> hashable(value.items[i])])
    ELSE value

\* _key.hashable, lines 300-306: a mapping becomes the tuple of its sorted
\* (key, hashable(value)) pairs, another iterable the tuple of its hashable items
hashable(value) ==
    IF is_mapping(value)
    THEN LET pairs == Sorted(value.items)
         IN  Tuple([i \in 1..Len(pairs) |->
                       Tuple(<<Atom(pairs[i].v), hashable(pairs[i].items[1])>>)])
    ELSE IF is_iterable(value)
    THEN Tuple([i \in 1..Len(value.items) |-> hashable(value.items[i])])
    ELSE value

\* Plan(func_or_task_type, subjects, **inputs), lines 202-212, with the inputs
\* kept as the mapping they are
PlanWith(func_or_task_type, subjects, inputs) ==
    [func |-> func_or_task_type, subjects |-> subjects, inputs |-> inputs]

\* _key, line 307
plan_key(plan) == <<plan.func, plan.subjects, hashable(plan.inputs)>>

\* The leaves a holder's Plans are made of, in the order of their hashes.
LeafSeq ==
    <<Atom("a"), PromiseOf("p1"), PromiseOf("p2"), Atom(KeyNames[1]), Atom(KeyNames[2])>>

RECURSIVE hash(_)
RECURSIVE hash_items(_, _, _)
\* hash() of a tuple: a combination of its length and its items' hashes in order
hash_items(items, i, h) ==
    IF i > Len(items) THEN h
    ELSE hash_items(items, i + 1, h * (Len(LeafSeq) + 1) + hash(items[i]))

\* hash() of a hashable value
hash(value) ==
    IF value.t = "tuple" THEN hash_items(value.items, 1, Len(value.items))
    ELSE IndexOf(LeafSeq, value)

\* __hash__, lines 309-310: the hash of the key, a tuple of three
plan_hash(plan) ==
    LET codes == <<IndexOf(<<"f", "g">>, plan.func), Cardinality(plan.subjects),
                   hash(hashable(plan.inputs))>>
    IN  (codes[1] * (Len(LeafSeq) + 1) + codes[2]) * (Len(LeafSeq) + 1) + codes[3]

\* __eq__ and __ne__, lines 312-316, between two Plans
plan_eq(plan, other) == plan_key(plan) = plan_key(other)

plan_ne(plan, other) == ~plan_eq(plan, other)

\* products_by_promise[item] for a missing item
KeyError(p) == [t |-> "KeyError", v |-> p, items |-> <<>>]

\* The product a satisfied Promise was given.
ProductOf(p) == Atom(p)

bind_promise_unbound(item, products_by_promise) ==
    IF item.v \in products_by_promise THEN ProductOf(item.v) ELSE item

\* bind_products, lines 279-280: products_by_promise[item]
bind_promise(item, products_by_promise) ==
    IF item.v \in products_by_promise THEN ProductOf(item.v) ELSE KeyError(item.v)

\* The first exception among the bound items, if one was raised.
Bound(container, items) ==
    LET raised == SelectSeq(items, LAMBDA item : item.t = "KeyError")
    IN  IF raised # <<>> THEN raised[1] ELSE container

RECURSIVE bind_products(_, _)
\* bind_products, lines 278-286: a Promise gives its product, a mapping a dict
\* of its bound values, another iterable the list of its bound items
bind_products(item, products_by_promise) ==
    IF is_promise(item) THEN bind_promise(item, products_by_promise)
    ELSE IF is_mapping(item)
    THEN LET values == [i \in 1..Len(item.items) |->
                           bind_products(item.items[i].items[1], products_by_promise)]
         IN  Bound(Mapping([i \in 1..Len(values) |-> Item(item.items[i].v, values[i])]),
                   values)
    ELSE IF is_iterable(item)
    THEN LET items == [i \in 1..Len(item.items) |->
                          bind_products(item.items[i], products_by_promise)]
         IN  Bound(List(items), items)
    ELSE item

\* Binding(func, args, kwargs), line 135
Binding(func, args, kwargs) == [t |-> "Binding", func |-> func, args |-> args,
                                kwargs |-> kwargs]

\* bind, lines 288-292: each input bound, then the Binding over them
bind(plan, products_by_promise) ==
    LET inputs == bind_products(plan.inputs, products_by_promise)
    IN  IF inputs.t = "KeyError" THEN inputs
        ELSE Binding("_execute_binding", <<plan.func>>, inputs)

\* The holder has no Plan yet, and has made no call.
NoPlanArgs == [plan |-> PlanWith(None, {}, Mapping(<<>>)),
               other |-> PlanWith(None, {}, Mapping(<<>>)), products |-> {}]

NoPlanRes == [op |-> "none"]

PlanIdle ==
    /\ plan_args = NoPlanArgs
    /\ plan_res = NoPlanRes

\* The sequences of at most MaxItems items from a set.
ItemSeqs(S) == UNION {[1..n -> S] : n \in 0..MaxItems}

Leaves == {Atom("a"), PromiseOf("p1"), PromiseOf("p2")}

\* The mappings over KeyNames, each in every order of its keys.
Mappings(S) ==
    {Mapping(<<>>)}
    \cup {Mapping(<<Item(k, v)>>) : k \in SeqToSet(KeyNames), v \in S}
    \cup {Mapping(<<Item(k1, v1), Item(k2, v2)>>) :
             <<k1, v1, k2, v2>> \in
                {q \in SeqToSet(KeyNames) \X S \X SeqToSet(KeyNames) \X S : q[1] # q[3]}}

\* A mapping written as the list of its (key, value) pairs in their order.
AsPairs(mapping) ==
    List([i \in 1..Len(mapping.items) |->
             Tuple(<<Atom(mapping.items[i].v), mapping.items[i].items[1]>>)])

\* The values an input is given: leaves, lists and tuples of leaves, mappings
\* of leaves, and lists of pairs.
InputValues ==
    Leaves
    \cup {List(items) : items \in ItemSeqs(Leaves)}
    \cup {Tuple(items) : items \in ItemSeqs(Leaves)}
    \cup Mappings(Leaves)
    \cup {AsPairs(mapping) : mapping \in Mappings(Leaves)}

\* The **inputs of a Plan: no input, one input of any value, or two inputs of
\* leaf values in either order.
PlanInputs ==
    {Mapping(<<Item(KeyNames[1], v)>>) : v \in InputValues} \cup Mappings(Leaves)

\* The holder's Plans, and the other Plans it compares them with.
HeldPlans == {PlanWith("f", {"S1"}, inputs) : inputs \in PlanInputs}

OtherPlans ==
    {PlanWith(func, subjects, inputs) :
        func \in {"f", "g"}, subjects \in {{"S1"}, {"S1", "S2"}}, inputs \in PlanInputs}

PlanInit ==
    /\ plan_args \in [plan : HeldPlans, other : OtherPlans, products : {{}}]
                     \cup {[plan |-> plan, other |-> plan, products |-> products] :
                              plan \in HeldPlans, products \in SUBSET {"p1", "p2"}}
    /\ plan_res = NoPlanRes

\* plan == other, plan != other, hash(plan) and hash(other)
plan_compare ==
    /\ plan_res' = [op |-> "compare",
                    eq |-> plan_eq(plan_args.plan, plan_args.other),
                    ne |-> plan_ne(plan_args.plan, plan_args.other),
                    hash |-> plan_hash(plan_args.plan),
                    other_hash |-> plan_hash(plan_args.other)]
    /\ UNCHANGED <<plan_args, sched, pvars, bvars, mvars, svars, gvars, jvars, fvars>>

\* plan.bind(products_by_promise)
plan_bind ==
    /\ plan_res' = [op |-> "bind", out |-> bind(plan_args.plan, plan_args.products)]
    /\ UNCHANGED <<plan_args, sched, pvars, bvars, mvars, svars, gvars, jvars, fvars>>

PlanNext ==
    \/ plan_compare
    \/ plan_bind

\* A request is constructed and schedule() is called on the scheduler.
ScheduleNext ==
    \/ build_product_graph
    \/ resolve_root_promises
    \/ schedule

SchedNext ==
    \/ build_product_graph
    \/ resolve_root_promises
    \/ execution_graph
    \/ \E w \in Walkers : walk(w)
    \/ \E w \in Walkers : walk_next(w)

(***************************************************************************)
(* ScalaJSZincCompile.select over the targets of a context.                *)
(***************************************************************************)
\* The targets of the build, each named by its address.
Targets == {"app", "lib", "util"}

\* The dependencies between targets: an edge goes from a target to one it
\* depends on, and no target depends on itself.
DependencyEdges == {<<"app", "lib">>, <<"app", "util">>, <<"lib", "util">>}

\* The orders in which a context can list some of the targets.
TargetLists ==
    {targets \in UNION {[1..n -> Targets] : n \in 0..Cardinality(Targets)} :
        \A i, j \in 1..Len(targets) : i # j => targets[i] # targets[j]}

\* __init__, line 35: self._selected_target_addresses = None
NotSelected == [computed |-> FALSE, addresses |-> {}]

NoSelect == [op |-> "none", target |-> None, out |-> FALSE, calls |-> 0]

Contexts ==
    [targets : TargetLists, binaries : SUBSET Targets, scala : SUBSET Targets,
     deps : SUBSET DependencyEdges]

\* No task has been constructed.
SelectIdle ==
    /\ context = [targets |-> <<>>, binaries |-> {}, scala |-> {}, deps |-> {}]
    /\ selected_target_addresses = NotSelected
    /\ select_last = NoSelect

\* A ScalaJSZincCompile constructed over a context.
SelectInit ==
    /\ context \in Contexts
    /\ selected_target_addresses = NotSelected
    /\ select_last = NoSelect

RECURSIVE closure(_, _)
\* target.closure(): the target and everything it depends on, transitively
closure(deps, target) ==
    {target} \cup UNION {closure(deps, edge[2]) : edge \in {e \in deps : e[1] = target}}

\* isinstance(target, ScalaJSBinary) and dep.has_sources('.scala')
is_binary(ctx, target) == target \in ctx.binaries
has_sources(ctx, dep) == dep \in ctx.scala

\* select, lines 51-58: the addresses of the targets with .scala sources in
\* the closure of a ScalaJSBinary of context.targets()
selected_addresses(ctx) ==
    UNION {{dep \in closure(ctx.deps, target) : has_sources(ctx, dep)} :
              target \in {t \in SeqToSet(ctx.targets) : is_binary(ctx, t)}}

\* What the name target is bound to at line 59 once the loop of line 52 has
\* run: the loop assigns each of context.targets() to it, so it is the last of
\* them, or the argument if there was none.
target_after_loop(ctx, target) ==
    IF ctx.targets = <<>> THEN target ELSE ctx.targets[Len(ctx.targets)]

\* select(target), lines 50-59: the memoized set after the call, and the
\* value returned
select(selected, ctx, target) ==
    IF ~selected.computed
    THEN LET addresses == selected_addresses(ctx)
         IN  [selected |-> [computed |-> TRUE, addresses |-> addresses],
              out |-> target_after_loop(ctx, target) \in addresses]
    ELSE [selected |-> selected, out |-> target \in selected.addresses]

\* A caller's task.select(target)
select_call(target) ==
    /\ select_last.calls < MaxSelectCalls
    /\ LET r == select(selected_target_addresses, context, target)
       IN  /\ selected_target_addresses' = r.selected
           /\ select_last' = [op |-> "select", target |-> target, out |-> r.out,
                              calls |-> select_last.calls + 1]
    /\ UNCHANGED <<context, sched, plan_args, plan_res, pvars, bvars, mvars, svars,
                   gvars, fvars>>

SelectNext == \E target \in Targets : select_call(target)

(***************************************************************************)
(* FSEventService: run() on the service thread, the executor's callback    *)
(* threads, and terminate() on another thread.                             *)
(***************************************************************************)
\* The registered handlers' names.
Handlers == {"all_files", "BUILD"}

\* What watchman.subscribed() yields: a handler's name with its event data, or
\* nothing to report.
NoEvent == [handler_name |-> None, event_data |-> FALSE]
Events == {[handler_name |-> name, event_data |-> TRUE] : name \in Handlers}
              \cup {NoEvent}

\* __init__, lines 27-33, before anything runs; the executor is new
ServiceNew ==
    /\ is_killed = FALSE
    /\ terminate_pc = "idle"
    /\ executor = [shutdown |-> FALSE, callbacks |-> <<>>]
    /\ run_pc = "new"
    /\ nevents = 0
    /\ event = NoEvent
    /\ futures = {}
    /\ completed = {}
    /\ id_counter = 0
    /\ logger = <<>>

\* No service has been constructed.
ServiceIdle ==
    /\ shutdown_executor = TRUE
    /\ ServiceNew

\* FSEventService(build_root, executor, shutdown_executor)
ServiceInit ==
    /\ shutdown_executor \in BOOLEAN
    /\ ServiceNew

\* run, lines 106-116: watchman is launched and the build root watched, or
\* ServiceError ends run
run_launch ==
    /\ run_pc = "new"
    /\ \E alive \in BOOLEAN : run_pc' = IF alive THEN "subscribed" ELSE "ServiceError"
    /\ UNCHANGED <<shutdown_executor, is_killed, terminate_pc, executor, nevents, event,
                   futures, completed, id_counter, logger>>
    /\ UNCHANGED <<sched, plan_args, plan_res, jvars, pvars, bvars, mvars, svars, gvars>>

\* run, line 119: watchman.subscribed() yields the next handler_name, event_data
subscribed_next ==
    /\ run_pc = "subscribed"
    /\ nevents < MaxEvents
    /\ nevents' = nevents + 1
    /\ event' \in Events
    /\ run_pc' = "is_killed"
    /\ UNCHANGED <<shutdown_executor, is_killed, terminate_pc, executor, futures,
                   completed, id_counter, logger>>
    /\ UNCHANGED <<sched, plan_args, plan_res, jvars, pvars, bvars, mvars, svars, gvars>>

\* run, lines 121-123: if self.is_killed: break, then if event_data
check_killed ==
    /\ run_pc = "is_killed"
    /\ run_pc' = IF is_killed THEN "returned"
                 ELSE IF event.event_data THEN "submit" ELSE "done"
    /\ UNCHANGED <<shutdown_executor, is_killed, terminate_pc, executor, nevents, event,
                   futures, completed, id_counter, logger>>
    /\ UNCHANGED <<sched, plan_args, plan_res, jvars, pvars, bvars, mvars, svars, gvars>>

\* run, lines 125-126: the callback is submitted and its future put in the
\* pending map; an executor that was shut down raises RuntimeError instead
submit ==
    /\ run_pc = "submit"
    /\ IF executor.shutdown
       THEN /\ run_pc' = "RuntimeError"
            /\ UNCHANGED <<executor, futures>>
       ELSE /\ executor' = [executor EXCEPT !.callbacks = Append(@, "running")]
            /\ futures' = futures \cup {<<Len(executor.callbacks) + 1, event.handler_name>>}
            /\ run_pc' = "done"
    /\ UNCHANGED <<shutdown_executor, is_killed, terminate_pc, nevents, event, completed,
                   id_counter, logger>>
    /\ UNCHANGED <<sched, plan_args, plan_res, jvars, pvars, bvars, mvars, svars, gvars>>

future_done_always(callbacks, future) == TRUE

\* future.done()
future_done(callbacks, future) == callbacks[future] # "running"

\* run, line 129: [future for future in futures if future.done()]
scan_done ==
    /\ run_pc = "done"
    /\ completed' = {entry \in futures : future_done(executor.callbacks, entry[1])}
    /\ run_pc' = "completed"
    /\ UNCHANGED <<shutdown_executor, is_killed, terminate_pc, executor, nevents, event,
                   futures, id_counter, logger>>
    /\ UNCHANGED <<sched, plan_args, plan_res, jvars, pvars, bvars, mvars, svars, gvars>>

\* The record a logging call leaves.
LogRecord(level, id, handler_name, future) ==
    [level |-> level, id |-> id, handler_name |-> handler_name, future |-> future]

\* run, lines 129-143: the next completed future, in the order the map gave
\* them, is popped, counted and logged: a warning for a truthy result or an
\* exception, a debug record otherwise; after the last the loop awaits the
\* next event
process_completed ==
    /\ run_pc = "completed"
    /\ IF completed = {}
       THEN /\ run_pc' = "subscribed"
            /\ UNCHANGED <<futures, completed, id_counter, logger>>
       ELSE \E entry \in completed :
              /\ futures' = futures \ {entry}
              /\ completed' = completed \ {entry}
              /\ id_counter' = id_counter + 1
              /\ logger' = Append(logger,
                     LogRecord(IF executor.callbacks[entry[1]] = "falsy"
                               THEN "debug" ELSE "warning",
                               id_counter + 1, entry[2], entry[1]))
              /\ run_pc' = run_pc
    /\ UNCHANGED <<shutdown_executor, is_killed, terminate_pc, executor, nevents, event>>
    /\ UNCHANGED <<sched, plan_args, plan_res, jvars, pvars, bvars, mvars, svars, gvars>>

\* An executor thread ends fire_callback, lines 99-101: the callback returned
\* a falsy result, or failed: it returned a truthy result or raised, which
\* lines 133-139 treat alike
callback_ends(future) ==
    /\ executor.callbacks[future] = "running"
    /\ \E result \in {"falsy", "failed"} :
          executor' = [executor EXCEPT !.callbacks[future] = result]
    /\ UNCHANGED <<shutdown_executor, is_killed, terminate_pc, run_pc, nevents, event,
                   futures, completed, id_counter, logger>>
    /\ UNCHANGED <<sched, plan_args, plan_res, jvars, pvars, bvars, mvars, svars, gvars>>

\* terminate, lines 37-39: the executor is shut down if so configured; from
\* then on it accepts no callback
terminate_shutdown ==
    /\ terminate_pc = "idle"
    /\ executor' = [executor EXCEPT !.shutdown = @ \/ shutdown_executor]
    /\ terminate_pc' = "super"
    /\ UNCHANGED <<shutdown_executor, is_killed, run_pc, nevents, event, futures,
                   completed, id_counter, logger>>
    /\ UNCHANGED <<sched, plan_args, plan_res, jvars, pvars, bvars, mvars, svars, gvars>>

\* terminate, lines 39-40: shutdown() has waited for the submitted callbacks
\* to end, and PantsService.terminate() sets the kill switch
terminate_super ==
    /\ terminate_pc = "super"
    /\ shutdown_executor
          => \A future \in 1..Len(executor.callbacks) :
                executor.callbacks[future] # "running"
    /\ is_killed' = TRUE
    /\ terminate_pc' = "terminated"
    /\ UNCHANGED <<shutdown_executor, executor, run_pc, nevents, event, futures,
                   completed, id_counter, logger>>
    /\ UNCHANGED <<sched, plan_args, plan_res, jvars, pvars, bvars, mvars, svars, gvars>>

ServiceNext ==
    \/ run_launch
    \/ subscribed_next
    \/ check_killed
    \/ submit
    \/ scan_done
    \/ process_completed
    \/ \E future \in 1..Len(executor.callbacks) : callback_ends(future)
    \/ terminate_shutdown
    \/ terminate_super

Fixed ==
    /\ cover = "single"
    /\ hash_order = "up"

Init ==
    /\ PromiseInit /\ BuildInit /\ MapperInit /\ SchedInit /\ GraphInit /\ Fixed
    /\ ScheduleInit /\ PlanIdle /\ SelectIdle /\ ServiceIdle

SchedulerInit ==
    /\ PromiseInit /\ BuildInit /\ MapperInit /\ SchedInit /\ GraphInit
    /\ ScheduleInit /\ PlanIdle /\ SelectIdle /\ ServiceIdle
    /\ cover \in CoverModes
    /\ hash_order \in {"up", "down"}

PromiseOnlyInit ==
    /\ PromiseInit /\ MapperInit /\ SchedInit /\ GraphInit /\ Fixed
    /\ ScheduleInit /\ PlanIdle /\ SelectIdle /\ ServiceIdle
    /\ native = [s \in Subjects |-> {}]
    /\ tasks = {}
    /\ root_products = <<>>
    /\ phase = "new"
    /\ product_graph = EmptyGraph

SpecPromise == PromiseOnlyInit /\ [][PromiseNext]_vars

SpecOneShot == PromiseOnlyInit /\ [][OneShotNext]_vars

\* The same use with threads that keep running: a writer inside success() or
\* failure() gets to its next statement, and so does a reader inside get()
\* whenever that statement can run.
SpecOneShotFair ==
    /\ PromiseOnlyInit
    /\ [][OneShotNext]_vars
    /\ WF_vars(event_set)
    /\ \A r \in Readers :
          WF_vars(get_wait(r) \/ get_test(r) \/ get_raise(r) \/ get_return(r))

SpecMapper == Init /\ [][MapperNext]_vars

SpecSched == SchedulerInit /\ [][SchedNext]_vars

SpecGraph == PromiseOnlyInit /\ [][GraphNext]_vars

ExpanderInit ==
    /\ PromiseInit /\ ExpandInit /\ MapperInit /\ SchedInit /\ GraphInit /\ Fixed
    /\ ScheduleInit /\ PlanIdle /\ SelectIdle /\ ServiceIdle

SpecExpand == ExpanderInit /\ [][ExpandNext]_vars

SpecSchedule == SchedulerInit /\ [][ScheduleNext]_vars

SpecQuery == PromiseOnlyInit /\ [][QueryNext]_vars

PlanHolderInit ==
    /\ PromiseInit /\ MapperInit /\ SchedInit /\ GraphInit /\ Fixed
    /\ ScheduleInit /\ PlanInit /\ SelectIdle /\ ServiceIdle
    /\ native = [s \in Subjects |-> {}]
    /\ tasks = {}
    /\ root_products = <<>>
    /\ phase = "new"
    /\ product_graph = EmptyGraph

SpecPlan == PlanHolderInit /\ [][PlanNext]_vars

SelectorInit ==
    /\ PromiseInit /\ MapperInit /\ SchedInit /\ GraphInit /\ Fixed
    /\ ScheduleInit /\ PlanIdle /\ SelectInit /\ ServiceIdle
    /\ native = [s \in Subjects |-> {}]
    /\ tasks = {}
    /\ root_products = <<>>
    /\ phase = "new"
    /\ product_graph = EmptyGraph

SpecSelect == SelectorInit /\ [][SelectNext]_vars

ServiceHolderInit ==
    /\ PromiseInit /\ MapperInit /\ SchedInit /\ GraphInit /\ Fixed
    /\ ScheduleInit /\ PlanIdle /\ SelectIdle /\ ServiceInit
    /\ native = [s \in Subjects |-> {}]
    /\ tasks = {}
    /\ root_products = <<>>
    /\ phase = "new"
    /\ product_graph = EmptyGraph

SpecService == ServiceHolderInit /\ [][ServiceNext]_vars

\* The outcome a get() reports for a completed success(v) / failure(e) call.
Outcome(call) ==
    IF call.op = "success" THEN [kind |-> "return", val |-> call.arg]
    ELSE [kind |-> "raise", val |-> call.arg]

\* C1 (as stated): once a first success/failure call has set the Promise,
\* every completed get() reports the outcome of that first call, whatever
\* success/failure calls follow.
C1_FirstOutcomeTerminal ==
    \A r \in Readers : rpc[r] = "done" => rres[r] = Outcome(calls[1])

\* C2: a get() gets past its wait (and so returns or raises) only after a
\* success or failure call has set the event; while no call has completed,
\* every reader that called get() is still blocked in the wait.
C2_GetBlocksWhilePending ==
    \A r \in Readers :
        rpc[r] \in {"test", "raise", "return", "done"} => p_event /\ Len(calls) >= 1

C2_Witness ==
    \E r \in Readers : rpc[r] = "done" /\ rblocked[r]

\* C3: with one writer calling once, after success(v) every get() returns v,
\* after failure(e) every get() raises e, and all readers observe the same
\* outcome.
C3_ReadersObserveOutcome ==
    /\ \A r \in Readers : rpc[r] = "done" => rres[r] = Outcome(calls[1])
    /\ \A r1, r2 \in Readers :
          rpc[r1] = "done" /\ rpc[r2] = "done" => rres[r1] = rres[r2]

C3_Witness ==
    /\ \A r \in Readers : rpc[r] = "done" /\ rres[r].kind = "raise"
    /\ Len(calls) = 1 /\ calls[1].op = "failure"

\* Neither a native product of the type on the subject nor a registered task
\* with that output type.
NoSource(subject, product_type) ==
    /\ product_type \notin native[subject]
    /\ \A t \in tasks : t.output # product_type

LastKey == PromiseKey(last_call[2], last_call[1], last_call[3])

\* C7: promise(subject, product_type) for a product type with no native fact on
\* the subject and no registered task producing it raises NoProducersError
\* naming that product type and subject, and returns no promise-key.
C7_NoProducersError ==
    (last_call # <<>> /\ NoSource(last_call[1], last_call[2]))
        => /\ last_res = Raised("NoProducersError", last_call[2], last_call[1], {})
           /\ promised(mapper, LastKey) = NoPlan

C7_Witness ==
    /\ last_call # <<>>
    /\ NoSource(last_call[1], last_call[2])
    /\ last_res.kind = "NoProducersError"
    /\ \E node \in SeqToSet(product_graph.nodes) :
          NodeKey(node) = <<last_call[1], last_call[2]>> /\ node.source.kind = "None"

\* Two registered tasks produce the product type, which is among the root
\* products, and the subject carries the input both tasks select.
TwoProducers(subject, product_type) ==
    /\ Cardinality({t \in tasks : t.output = product_type}) = 2
    /\ product_type = "UpperText"
    /\ product_type \in SeqToSet(root_products)
    /\ "RawText" \in native[subject]

\* C8 (as stated): with two tasks producing the same output type for a subject,
\* building the product graph succeeds and promise(subject, product_type)
\* raises ConflictingProducersError listing both candidate plans.
C8_ConflictingProducersError ==
    \A subject \in Subjects, product_type \in Products :
        (TwoProducers(subject, product_type) /\ phase # "new")
            => /\ phase # "failed"
               /\ (last_call = <<subject, product_type, None>>
                      => /\ last_res.kind = "ConflictingProducersError"
                         /\ Cardinality(last_res.plans) = 2)

\* C9: a promise() call whose promise-key is already resolved returns that key
\* without asking the ProductGraph (or, through it, any planner), and leaves
\* the promise->plan table and the per-planner plan table as they were.
C9_Memoized ==
    [][(ncalls' = ncalls + 1
        /\ promised(mapper, PromiseKey(last_call'[2], last_call'[1], last_call'[3]))
              # NoPlan)
          => /\ mapper' = mapper
             /\ last_res' = Returned(PromiseKey(last_call'[2], last_call'[1], last_call'[3]))
             /\ last_queries' = 0]_vars

C9_Witness ==
    /\ last_hit
    /\ last_res.kind = "ok"
    /\ mapper.by_planner # <<>>

\* C10: when promise() succeeds with Plan p, every subject of p has its
\* promise-key (subject, product type, configuration) mapped to p, and the
\* returned promise-key is the one of the requested subject.
C10_RegistersEverySubject ==
    (last_res.kind = "ok" /\ ~last_hit)
        => /\ last_res.key = LastKey
           /\ promised(mapper, LastKey) # NoPlan
           /\ \A subject \in promised(mapper, LastKey).subjects :
                 promised(mapper, PromiseKey(last_call[2], subject, last_call[3]))
                     = promised(mapper, LastKey)

C10_Witness ==
    /\ last_res.kind = "ok"
    /\ ~last_hit
    /\ promised(mapper, LastKey).subjects = Subjects
    /\ promised(mapper, LastKey).promises # {}

RECURSIVE ReachableKeys(_, _)
\* The promise-keys reachable from a set of promise-keys through the promises
\* of the plans they are mapped to.
ReachableKeys(seen, frontier) ==
    IF frontier \subseteq seen THEN seen
    ELSE ReachableKeys(seen \cup frontier,
                       UNION {promised(mapper, key).promises : key \in frontier \ seen})

ReachablePlans(keys) == {promised(mapper, key) : key \in ReachableKeys({}, keys)}

YieldedPlans(w) == {walker[w].out[i].plan : i \in 1..Len(walker[w].out)}

\* C4: walk() yields every Plan reachable from the root promise-keys, and no
\* Plan in two yielded pairs.
C4_EveryPlanOnce ==
    \A w \in Walkers :
        /\ \A i, j \in 1..Len(walker[w].out) :
              walker[w].out[i].plan = walker[w].out[j].plan => i = j
        /\ walker[w].st = "done"
              => YieldedPlans(w) = ReachablePlans(SeqToSet(root_promises))

C4_Witness ==
    \E w \in Walkers :
        /\ walker[w].st = "done"
        /\ Len(walker[w].out) >= 2
        /\ \E i, j \in 1..Len(root_promises) :
              /\ i # j
              /\ promised(mapper, root_promises[i]) = promised(mapper, root_promises[j])

\* C5: in the sequence walk() yields, every Plan that a yielded Plan depends on,
\* directly or transitively through Plan.promises, was yielded before it.
C5_DependenciesFirst ==
    \A w \in Walkers : \A i \in 1..Len(walker[w].out) :
        \A q \in ReachablePlans(walker[w].out[i].plan.promises)
                    \ {walker[w].out[i].plan} :
            \E j \in 1..(i - 1) : walker[w].out[j].plan = q

C5_Witness ==
    \E w \in Walkers :
        /\ walker[w].st = "done"
        /\ Len(walker[w].out) >= 3
        /\ \E i, j, k \in 1..Len(walker[w].out) :
              /\ i < j /\ j < k
              /\ walker[w].out[j].promise \in walker[w].out[k].plan.promises
              /\ walker[w].out[i].promise \in walker[w].out[j].plan.promises

IsPrefix(a, b) == Len(a) <= Len(b) /\ SubSeq(b, 1, Len(a)) = a

\* C6: every call of walk() yields the same complete sequence from the first
\* root on, whether or not earlier generators were consumed or abandoned.
C6_Restartable ==
    \A w1, w2 \in Walkers :
        /\ IsPrefix(walker[w1].out, walker[w2].out)
              \/ IsPrefix(walker[w2].out, walker[w1].out)
        /\ walker[w1].st = "done" /\ walker[w2].st = "done"
              => walker[w1].out = walker[w2].out

C6_Witness ==
    /\ \A w \in Walkers : walker[w].st = "done" /\ Len(walker[w].out) >= 2
    /\ \E w \in Walkers : walker[w].abandoned

(***************************************************************************)
(* Claims about the ProductGraph and its satisfiability.                   *)
(***************************************************************************)
\* The evaluation the caller made last, on the graph as it is now.
Evaluated(node) == graph_call.op = "_node_state" /\ graph_call.src = node

Satisfied(node) == is_satisfiable(product_graph, node, {})

Dependencies(node) == SeqToSet(Adjacent(product_graph, node))

C12_OrAnyDependency ==
    \A node \in GraphNodes :
        node.source.kind = "OR"
        /\ node_state(product_graph, node, {}) \notin Exceptions =>
            /\ Satisfied(node) <=> \E dep \in Dependencies(node) : Satisfied(dep)
            /\ Evaluated(node) => graph_res = Bool(\E dep \in Dependencies(node) :
                                                      Satisfied(dep))

\* An Or node with one unsatisfiable and one satisfied dependency, just
\* evaluated as satisfied.
C12_Witness ==
    \E node \in SeqToSet(product_graph.nodes) :
        /\ node.source.kind = "OR"
        /\ \E dep \in Dependencies(node) : Satisfied(dep)
        /\ \E dep \in Dependencies(node) : ~Satisfied(dep)
        /\ Evaluated(node)
        /\ graph_res = "True"

\* C13: a Task-sourced node is satisfied exactly when every one of its adjacent
\* dependency nodes is satisfied, and an evaluation that returned reported so;
\* one unsatisfiable dependency makes it unsatisfied.
C13_TaskAllDependencies ==
    \A node \in GraphNodes :
        node.source.kind = "Task" =>
            /\ Satisfied(node) <=> \A dep \in Dependencies(node) : Satisfied(dep)
            /\ Evaluated(node) /\ graph_res \notin Exceptions =>
                  graph_res = Bool(\A dep \in Dependencies(node) : Satisfied(dep))

\* A Task node with one satisfied and one unsatisfiable dependency, just
\* evaluated as not satisfied.
C13_Witness ==
    \E node \in SeqToSet(product_graph.nodes) :
        /\ node.source.kind = "Task"
        /\ \E dep \in Dependencies(node) : Satisfied(dep)
        /\ \E dep \in Dependencies(node) : ~Satisfied(dep)
        /\ Evaluated(node)
        /\ graph_res = "False"

NoDuplicates(seq) == \A i, j \in 1..Len(seq) : seq[i] = seq[j] => i = j

\* C16: add_node registers a node exactly once: for a node that is not yet
\* registered it records the node with the given promise; for a registered node
\* it raises ValueError and leaves the node table, the promise registered for
\* that node and all the edges as they were.
C16_AddNodeOnce ==
    [][graph_call'.op = "add_node" =>
          LET node == graph_call'.src
          IN  /\ exists_node(product_graph, node) =>
                    /\ graph_res' = "ValueError"
                    /\ product_graph' = product_graph
              /\ ~exists_node(product_graph, node) =>
                    /\ graph_res' = None
                    /\ product_graph'.nodes = Append(product_graph.nodes, node)
                    /\ product_graph'.promises
                          = Append(product_graph.promises, PromiseFor(node))
                    /\ product_graph'.adj = product_graph.adj
              /\ NoDuplicates(product_graph'.nodes)]_vars

\* A second add_node of a registered node that has edges was just refused.
C16_Witness ==
    /\ graph_call.op = "add_node"
    /\ graph_res = "ValueError"
    /\ exists_node(product_graph, graph_call.src)
    /\ \E e \in SeqToSet(product_graph.adj) : e[1] = graph_call.src

EdgesRegistered(g) ==
    \A e \in SeqToSet(g.adj) : exists_node(g, e[1]) /\ exists_node(g, e[2])

\* C17: add_edge(src, dst) records the edge only when src and dst are both
\* registered; with an unregistered endpoint it raises ValueError and records
\* nothing, so both endpoints of every edge of the graph are registered nodes.
C17_EdgesBetweenRegistered ==
    [][graph_call'.op = "add_edge" =>
          LET src == graph_call'.src
              dst == graph_call'.dst
          IN  /\ ~(exists_node(product_graph, src) /\ exists_node(product_graph, dst)) =>
                    /\ graph_res' = "ValueError"
                    /\ product_graph' = product_graph
              /\ exists_node(product_graph, src) /\ exists_node(product_graph, dst) =>
                    /\ graph_res' = None
                    /\ <<src, dst>> \in SeqToSet(product_graph'.adj)
                    /\ product_graph'.nodes = product_graph.nodes
              /\ EdgesRegistered(product_graph')]_vars

\* An edge from a registered node to an unregistered one was just refused, in
\* a graph that has edges.
C17_Witness ==
    /\ graph_call.op = "add_edge"
    /\ graph_res = "ValueError"
    /\ exists_node(product_graph, graph_call.src)
    /\ ~exists_node(product_graph, graph_call.dst)
    /\ product_graph.adj # <<>>

(***************************************************************************)
(* Claims about Planners' graph expansion.                                 *)
(***************************************************************************)
Registered == SeqToSet(product_graph.nodes)

\* Some satisfiable source node is registered at (subject, product).
SatisfiableSourceAt(subject, product) ==
    \E source_node \in Registered :
        /\ source_node.subject = subject
        /\ source_node.product = product
        /\ source_node.source.kind # "OR"
        /\ Satisfied(source_node)

Selected(node, k) ==
    SeqToSet(select_subjects(node.source.clause[k].selector, node.subject))

\* C14 (as stated): a satisfiable Task node of the finished graph has, for
\* every Select of its clause, at least one satisfiable source node that the
\* Select resolved to.
C14_EverySelectResolved ==
    phase = "planning" =>
        \A node \in Registered :
            node.source.kind = "Task" /\ Satisfied(node) =>
                \A k \in 1..Len(node.source.clause) :
                    \E dep_subject \in Selected(node, k) :
                        SatisfiableSourceAt(dep_subject, node.source.clause[k].product)

\* C14 (amended): a satisfiable Task node of the finished graph has, for every
\* Select of its clause and every subject that Select selects, at least one
\* satisfiable source node of the Select's product for that subject; a Select
\* that selects no subject asks for nothing.
C14_EverySelectedSubjectResolved ==
    phase = "planning" =>
        \A node \in Registered :
            node.source.kind = "Task" /\ Satisfied(node) =>
                \A k \in 1..Len(node.source.clause) :
                    \A dep_subject \in Selected(node, k) :
                        SatisfiableSourceAt(dep_subject, node.source.clause[k].product)

\* A task node with a two-Select clause, each selecting a subject, was just
\* evaluated as satisfied.
C14_Witness ==
    /\ phase = "planning"
    /\ \E node \in Registered :
          /\ node.source.kind = "Task"
          /\ Len(node.source.clause) = 2
          /\ \A k \in 1..2 : Selected(node, k) # {}
          /\ Evaluated(node)
          /\ graph_res = "True"

\* An Or node is registered at (subject, product) with an edge to the node of
\* each of the key's sources.
OrNodeAt(subject, product) ==
    LET sources == node_sources(0, subject, product)
    IN  \E or_node \in Registered :
            /\ or_node.source.kind = "OR"
            /\ NodeKey(or_node) = <<subject, product>>
            /\ \A i \in 1..Len(sources) :
                  <<or_node, Node(subject, product, sources[i])>>
                      \in SeqToSet(product_graph.adj)

\* C15 (as stated): once product_graph has run, it has completed without error,
\* and every root key and every dependency key of a registered task node that
\* has more than one source has a registered Or node with an edge to each
\* alternative source node.
C15_OrNodeSynthesized ==
    phase # "new" =>
        /\ product_graph.err = None
        /\ \A subject \in Subjects, product \in SeqToSet(root_products) :
              Len(node_sources(0, subject, product)) > 1 => OrNodeAt(subject, product)
        /\ \A node \in Registered :
              node.source.kind = "Task" =>
                  \A k \in 1..Len(node.source.clause) :
                      \A dep_subject \in Selected(node, k) :
                          Len(node_sources(0, dep_subject,
                                           node.source.clause[k].product)) > 1
                              => OrNodeAt(dep_subject, node.source.clause[k].product)

\* How many sources of a kind a sequence of sources holds.
CountKind(sources, kind) ==
    Cardinality({i \in 1..Len(sources) : sources[i].kind = kind})

\* C18: for every subject and product type, under every registry, _node_sources
\* returns a non-empty sequence: one Native source per native product of that
\* type on the subject, one Task source per registered task with that output
\* type, and exactly one None source (a new one) when there is neither.
C18_NodeSourcesNeverEmpty ==
    \A subject \in Subjects, product_type \in Products :
        LET sources == node_sources(product_graph.fresh, subject, product_type)
            producers == {t \in tasks : t.output = product_type}
            present == native[subject] \cap {product_type}
        IN  /\ Len(sources) >= 1
            /\ CountKind(sources, "Native") = Cardinality(present)
            /\ \A i \in 1..Len(sources) :
                  sources[i].kind = "Native" => sources[i].value = product_type
            /\ CountKind(sources, "Task") = Cardinality(producers)
            /\ \A t \in producers : SourceTask(t.task, t.clause) \in SeqToSet(sources)
            /\ CountKind(sources, "None")
                  = (IF present = {} /\ producers = {} THEN 1 ELSE 0)
            /\ present = {} /\ producers = {} =>
                  sources = <<SourceNone(product_graph.fresh)>>
            /\ CountKind(sources, "OR") = 0

\* product_graph has run over a registry in which one key has a native and a
\* task source, one has two task sources and one has no source at all.
C18_Witness ==
    /\ phase # "new"
    /\ \E subject \in Subjects, product_type \in Products :
          /\ product_type \in native[subject]
          /\ \E t \in tasks : t.output = product_type
    /\ \E subject \in Subjects, product_type \in Products :
          CountKind(node_sources(0, subject, product_type), "Task") = 2
    /\ \E subject \in Subjects, product_type \in Products :
          CountKind(node_sources(0, subject, product_type), "None") = 1

\* The _node_sources lookups a construction has made, and its task nodes.
Lookups(g) == (g.fresh - 1) \div 2

TaskNodes(g) == {node \in SeqToSet(g.nodes) : node.source.kind = "Task"}

\* The longest clause a task of the pool declares.
MaxClause ==
    CHOOSE n \in {Len(TaskPool[i].clause) : i \in 1..Len(TaskPool)} :
        \A i \in 1..Len(TaskPool) : Len(TaskPool[i].clause) <= n

\* Every node is registered once, a task node exists at most once per subject
\* and task, and only root pairs and the Selects of task nodes were looked up.
ExpansionBounded(g) ==
    /\ NoDuplicates(g.nodes)
    /\ Cardinality(TaskNodes(g)) <= Cardinality(Subjects) * Cardinality(tasks)
    /\ Lookups(g) <= Cardinality(Subjects) * Len(root_products)
                       + Cardinality(TaskNodes(g)) * MaxClause * Cardinality(Subjects)

\* C19: expanding a node that is already registered changes neither the nodes
\* nor the edges and raises nothing, and product_graph comes to an end after
\* boundedly many expansions under every registry, those whose tasks feed on
\* their own output included.
C19_ExpansionIdempotent ==
    [][/\ \A node \in SeqToSet(product_graph.nodes) :
             graph_expand_node(node) =>
                 /\ product_graph' = product_graph
                 /\ graph_res' = None
       /\ build_product_graph =>
             /\ phase' \in {"planning", "failed"}
             /\ ExpansionBounded(product_graph')]_vars

\* A task node on a dependency cycle of the finished graph was just expanded
\* again.
C19_Witness ==
    /\ phase = "planning"
    /\ graph_call.op = "_expand_node"
    /\ graph_call.src.source.kind = "Task"
    /\ \E e \in SeqToSet(product_graph.adj) :
          /\ e[1] = graph_call.src
          /\ <<e[2], e[1]>> \in SeqToSet(product_graph.adj)

RECURSIVE ReachFrom(_, _)
\* The nodes the edges of g lead to from the nodes seen.
ReachFrom(g, seen) ==
    LET next == seen \cup {e[2] : e \in {d \in SeqToSet(g.adj) : d[1] \in seen}}
    IN  IF next = seen THEN seen ELSE ReachFrom(g, next)

OnCycle(g, node) == node \in ReachFrom(g, SeqToSet(Adjacent(g, node)))

\* C20 (as stated): a dependency cycle between nodes is reported as a cyclic-
\* dependency error: a graph whose construction was accepted has no cycle, a
\* construction that met one ended with CyclicDependencyError, and no
\* evaluation of a node recurses without bound.
C20_CycleReported ==
    /\ phase = "planning" => \A node \in Registered : ~OnCycle(product_graph, node)
    /\ (\E node \in Registered : OnCycle(product_graph, node))
          => product_graph.err = "CyclicDependencyError"
    /\ graph_res # "RecursionError"

\* The nodes that are dependencies of a node, directly or through other nodes.
Subtree(g, node) == ReachFrom(g, SeqToSet(Adjacent(g, node)))

\* The registered nodes sources_for is to yield the sources of.
Matching(subject, product, consumed_product) ==
    {node \in Registered :
        /\ node.source.kind # "OR"
        /\ NodeKey(node) = <<subject, product>>
        /\ Satisfied(node)
        /\ \/ consumed_product = None
           \/ \E dep \in Subtree(product_graph, node) :
                 dep.product = TypeOf(consumed_product)}

\* C21: a sources_for(subject, product, consumed_product) call that returns has
\* yielded, once each, exactly the sources of the registered non-Or nodes at
\* (subject, product) that are satisfiable and, when consumed_product is given,
\* have a node of that product's type among their direct or indirect
\* dependencies; it has yielded no Or source.
C21_SourcesForExact ==
    (graph_call.op = "sources_for" /\ graph_res.err = None) =>
        LET matching == Matching(graph_call.key[1], graph_call.key[2], graph_call.key[3])
        IN  /\ SeqToSet(graph_res.yielded) = {node.source : node \in matching}
            /\ Len(graph_res.yielded) = Cardinality(matching)
            /\ \A i \in 1..Len(graph_res.yielded) : graph_res.yielded[i].kind # "OR"

\* A call with a configuration yielded the Task source of a key at which a
\* satisfied Or node is registered too; the Task node reaches the node of the
\* configuration's type only through another node.
C21_Witness ==
    /\ graph_call.op = "sources_for"
    /\ graph_call.key[3] # None
    /\ graph_res.err = None
    /\ Len(graph_res.yielded) = 1
    /\ graph_res.yielded[1].kind = "Task"
    /\ \E or_node \in Registered :
          /\ or_node.source.kind = "OR"
          /\ NodeKey(or_node) = <<graph_call.key[1], graph_call.key[2]>>
          /\ Satisfied(or_node)
    /\ \E node \in Registered :
          /\ node.source = graph_res.yielded[1]
          /\ \A dep \in Dependencies(node) : dep.product # TypeOf(graph_call.key[3])

\* The (root subject, root product) pairs the product graph found satisfiable.
RelevantPairs ==
    {pair \in Subjects \X SeqToSet(root_products) :
        pair[2] \in products_for(product_graph, pair[1])}

\* C22: a constructed LocalScheduler holds exactly one root promise-key, a
\* resolved one, for each (root subject, root product) pair whose product is in
\* products_for(subject), and none for the other pairs; and a construction that
\* promise() ended was ended for a subject and product that are satisfiable,
\* by a planner whose Plan does not cover the subject it was asked for.
C22_UnsatisfiableRootsSkipped ==
    /\ phase = "constructed" =>
          /\ SeqToSet(root_promises)
                = {PromiseKey(pair[2], pair[1], None) : pair \in RelevantPairs}
          /\ Len(root_promises) = Cardinality(RelevantPairs)
          /\ \A i \in 1..Len(root_promises) :
                promised(mapper, root_promises[i]) # NoPlan
    /\ (phase = "failed" /\ product_graph.err = None) =>
          /\ last_res.kind = "SchedulingError"
          /\ last_res.product_type \in products_for(product_graph, last_res.subject)
          /\ cover = "other"

\* A scheduler was constructed with a root promise-key for one subject and
\* none for the other, whose root product has a registered task but no
\* satisfiable source.
C22_Witness ==
    /\ phase = "constructed"
    /\ root_promises # <<>>
    /\ \E subject \in Subjects, product \in SeqToSet(root_products) :
          /\ <<subject, product>> \notin RelevantPairs
          /\ \E node \in Registered :
                NodeKey(node) = <<subject, product>> /\ node.source.kind = "Task"

\* The request of the scenario: the goal maps to {UpperText}, Uppercase is the
\* registered task and plans for the subject it is asked for.
UppercaseRequest ==
    /\ root_products = <<"UpperText">>
    /\ tasks = {TaskPool[1]}
    /\ cover = "single"

\* C23 (as stated): for the UpperText request on a root subject that has no
\* RawText fact, with no task producing RawText, the construction of the
\* scheduler does not complete: it raises NoProducersError naming RawText and
\* that subject.
C23_IntermediateNoProducers ==
    \A subject \in Subjects :
        (UppercaseRequest /\ NoSource(subject, "RawText")
            /\ phase \notin {"new", "planning"}) =>
                /\ phase = "failed"
                /\ last_res.kind = "NoProducersError"
                /\ last_res.product_type = "RawText"

RECURSIVE walk_all(_)
\* list(execution_graph.walk()): the generator run to its end
walk_all(ws) == IF ws.st # "active" THEN ws.out ELSE walk_all(advance(ws))

\* The pairs a walk over the scheduler's root promise-keys and mapper yields.
Walked == walk_all([NoWalk EXCEPT !.st = "active"])

\* The identity Plan surfacing RawText for S1, then the Uppercase Plan for S1
\* that takes its promise-key as input.
IdentityThenUppercase(out) ==
    /\ Len(out) = 2
    /\ out[1].plan = Plan("lift_native_product", {"S1"}, {}, <<"S1", "RawText">>)
    /\ out[1].promise = PromiseKey("RawText", "S1", None)
    /\ out[2].plan = Plan("Uppercase", {"S1"}, {out[1].promise}, <<>>)
    /\ out[2].promise = PromiseKey("UpperText", "S1", None)

\* C24 (as stated): with a native RawText on S1 alone and the task Uppercase,
\* a schedule() call on the scheduler constructed for the UpperText request
\* returns an ExecutionGraph, and its walk is the identity Plan surfacing
\* RawText followed by the Uppercase Plan that depends on it.
C24_EndToEndTwoPlans ==
    (UppercaseRequest /\ native = [s \in Subjects |-> IF s = "S1" THEN {"RawText"} ELSE {}]
        /\ sched.calls >= 1) =>
            /\ sched.res = "ExecutionGraph"
            /\ IdentityThenUppercase(Walked)

\* C25 (as stated): once schedule() has been called on a constructed
\* scheduler, however often, the plan-aggregation hook has run exactly once for
\* the request, after the root promise-keys were resolved, and the latest call
\* returned an ExecutionGraph over them.
C25_AggregatedOncePerRequest ==
    sched.calls >= 1 =>
        /\ sched.aggregated = 1
        /\ sched.res = "ExecutionGraph"
        /\ phase = "scheduled"

\* The value a mapping holds for a key.
ValueAt(mapping, key) ==
    (CHOOSE item \in SeqToSet(mapping.items) : item.v = key).items[1]

MappingKeys(mapping) == {mapping.items[i].v : i \in 1..Len(mapping.items)}

RECURSIVE SameButKeyOrder(_, _)
\* Two values are the same but for the order in which mappings iterate their
\* keys.
SameButKeyOrder(value, other) ==
    IF value.t # other.t THEN FALSE
    ELSE IF is_mapping(value)
    THEN /\ MappingKeys(value) = MappingKeys(other)
         /\ \A key \in MappingKeys(value) :
               SameButKeyOrder(ValueAt(value, key), ValueAt(other, key))
    ELSE IF is_iterable(value)
    THEN /\ Len(value.items) = Len(other.items)
         /\ \A i \in 1..Len(value.items) : SameButKeyOrder(value.items[i], other.items[i])
    ELSE value = other

\* The items of a container: a list's or tuple's items, a mapping's (key,
\* value) pairs by ascending key.
ItemsOf(value) ==
    IF is_mapping(value)
    THEN LET pairs == Sorted(value.items)
         IN  [i \in 1..Len(pairs) |-> Tuple(<<Atom(pairs[i].v), pairs[i].items[1]>>)]
    ELSE value.items

RECURSIVE SameItems(_, _)
\* Two values hold the same leaves in the same places, whatever kind of
\* container holds them.
SameItems(value, other) ==
    IF is_mapping(value) \/ is_iterable(value)
    THEN /\ is_mapping(other) \/ is_iterable(other)
         /\ Len(ItemsOf(value)) = Len(ItemsOf(other))
         /\ \A i \in 1..Len(ItemsOf(value)) :
               SameItems(ItemsOf(value)[i], ItemsOf(other)[i])
    ELSE value = other

Compared == plan_res.op = "compare"

\* Equal Plans have equal hashes, and Plans that differ only in the order of
\* the keys of their input mappings are equal.
EqualAndHashed ==
    /\ plan_res.eq = ~plan_res.ne
    /\ plan_res.eq => plan_res.hash = plan_res.other_hash
    /\ (/\ plan_args.plan.func = plan_args.other.func
        /\ plan_args.plan.subjects = plan_args.other.subjects
        /\ SameButKeyOrder(plan_args.plan.inputs, plan_args.other.inputs))
          => plan_res.eq

\* C26 (as stated): Plan equality and hash are invariant under reordering of
\* the keys of any input mapping, equal Plans have equal hashes, and two Plans
\* compare unequal whenever their executables differ, their subject sets differ
\* or any nested input value differs.
C26_PlanEqualityExact ==
    Compared =>
        /\ EqualAndHashed
        /\ (\/ plan_args.plan.func # plan_args.other.func
            \/ plan_args.plan.subjects # plan_args.other.subjects
            \/ ~SameButKeyOrder(plan_args.plan.inputs, plan_args.other.inputs))
              => ~plan_res.eq

\* C26 (amended): Plan equality and hash are invariant under reordering of the
\* keys of any input mapping, equal Plans have equal hashes, and two Plans
\* compare unequal whenever their executables differ, their subject sets differ
\* or their inputs do not hold the same items in the same places once each
\* mapping is read as its (key, value) pairs by ascending key; inputs that
\* differ only in the kind of a container compare equal.
C26_PlanEqualityNormalized ==
    Compared =>
        /\ EqualAndHashed
        /\ (\/ plan_args.plan.func # plan_args.other.func
            \/ plan_args.plan.subjects # plan_args.other.subjects
            \/ ~SameItems(plan_args.plan.inputs, plan_args.other.inputs))
              => ~plan_res.eq
        /\ (/\ plan_args.plan.func = plan_args.other.func
            /\ plan_args.plan.subjects = plan_args.other.subjects
            /\ SameItems(plan_args.plan.inputs, plan_args.other.inputs))
              => plan_res.eq

\* Two Plans were compared whose inputs are two-key mappings iterated in
\* different orders, and were found equal with equal hashes.
C26_Witness ==
    /\ Compared
    /\ plan_res.eq
    /\ plan_res.hash = plan_res.other_hash
    /\ is_mapping(plan_args.plan.inputs)
    /\ Len(plan_args.plan.inputs.items) = 2
    /\ plan_args.plan.inputs # plan_args.other.inputs
    /\ SameButKeyOrder(plan_args.plan.inputs, plan_args.other.inputs)

RECURSIVE Embedded(_)
\* The Promises embedded anywhere in a value.
Embedded(value) ==
    IF is_promise(value) THEN {value.v}
    ELSE UNION {Embedded(value.items[i]) : i \in 1..Len(value.items)}

RECURSIVE Depth(_)
\* How deep a value's leaves are nested.
Depth(value) ==
    IF value.items = <<>> THEN 0
    ELSE 1 + CHOOSE d \in 0..3 :
                 /\ \E i \in 1..Len(value.items) : Depth(value.items[i]) = d
                 /\ \A i \in 1..Len(value.items) : Depth(value.items[i]) <= d

BindCalled == plan_res.op = "bind"

\* C27: Plan.bind(products_by_promise) produces a Binding only when every
\* Promise embedded anywhere in the Plan's inputs, at any nesting depth of
\* mappings and sequences, has been supplied a satisfied value; if any embedded
\* Promise is missing from the supplied mapping no Binding is returned, and a
\* Binding that is returned holds no Promise.
C27_BindNeedsEveryPromise ==
    BindCalled =>
        /\ plan_res.out.t = "Binding"
              <=> Embedded(plan_args.plan.inputs) \subseteq plan_args.products
        /\ plan_res.out.t = "Binding" => Embedded(plan_res.out.kwargs) = {}
        /\ plan_res.out.t # "Binding"
              => /\ plan_res.out.t = "KeyError"
                 /\ plan_res.out.v \in Embedded(plan_args.plan.inputs) \ plan_args.products

\* bind was called on a Plan with a supplied and a missing Promise nested
\* inside a sequence inside an input, and returned no Binding.
C27_Witness ==
    /\ BindCalled
    /\ Depth(plan_args.plan.inputs) >= 3
    /\ Embedded(plan_args.plan.inputs) = {"p1", "p2"}
    /\ plan_args.products = {"p1"}
    /\ plan_res.out = KeyError("p2")

\* bind was called on a Plan with Promises nested inside a sequence inside an
\* input, all of them supplied, and returned a Binding.
C27_WitnessBound ==
    /\ BindCalled
    /\ Depth(plan_args.plan.inputs) >= 3
    /\ Embedded(plan_args.plan.inputs) = {"p1", "p2"}
    /\ plan_args.products = {"p1", "p2"}
    /\ plan_res.out.t = "Binding"

(***************************************************************************)
(* Claims about readers of a terminal Promise.                             *)
(***************************************************************************)
\* The single writer has called success or failure.
WriterCalled == wpc.op # "idle" \/ Len(calls) >= 1

\* C28: under weak fairness, once the single writer has called success or
\* failure on a Promise, every reader that is blocked in get() or calls get()
\* afterwards eventually returns or raises; no reader remains blocked on a
\* terminal Promise.
C28_ReadersOfTerminalPromiseFinish ==
    \A r \in Readers : (WriterCalled /\ rpc[r] = "wait") ~> (rpc[r] = "done")

\* A reader that found the event unset when it called get() has returned or
\* raised after the writer's call.
C28_Witness ==
    \E r \in Readers :
        /\ rblocked[r]
        /\ rpc[r] = "done"
        /\ Len(calls) = 1
        /\ rres[r].kind \in {"return", "raise"}
        /\ \E other \in Readers \ {r} : ~rblocked[other] /\ rpc[other] = "done"

(***************************************************************************)
(* Claims about the ProductMapper's tables across promise() calls.         *)
(***************************************************************************)
\* C29: a resolved promise-key is stable: once the promise->plan table maps a
\* promise-key to a Plan, that key maps to the same Plan after any later
\* promise() call of the same request, calls that register multi-subject Plans
\* covering the same subject included.
C29_ResolvedKeyStable ==
    [][\A key \in Keys :
          promised(mapper, key) # NoPlan => promised(mapper', key) = promised(mapper, key)]_vars

\* A promise() call raised one of the scheduling errors.
PromiseRaised ==
    /\ ncalls' = ncalls + 1
    /\ last_res'.kind \in {"NoProducersError", "ConflictingProducersError",
                           "SchedulingError"}

\* C30: a failed ProductMapper.promise call leaves no partial registration:
\* whenever promise() raises NoProducersError, ConflictingProducersError or
\* SchedulingError, the promise->plan table and the per-planner plan table are
\* the same as before the call.
C30_FailedPromiseRegistersNothing ==
    [][PromiseRaised => /\ mapper'.promises = mapper.promises
                        /\ mapper'.by_planner = mapper.by_planner]_vars

(***************************************************************************)
(* Claims about ScalaJSZincCompile.select.                                 *)
(***************************************************************************)
\* The targets with .scala sources in the closure of some ScalaJSBinary target
\* of the context.
ScalaOfBinaries ==
    {dep \in Targets :
        /\ dep \in context.scala
        /\ \E binary \in SeqToSet(context.targets) \cap context.binaries :
              dep \in closure(context.deps, binary)}

\* C32: select(target) returns true exactly when target's address belongs to
\* the set of .scala-source targets in the closure of some ScalaJSBinary target
\* of the context; the result depends only on the target passed and the
\* context's targets, so it is the same on the first call, which computes the
\* memoized set, as on every later call.
C32_SelectByClosureMembership ==
    select_last.op = "select"
        => select_last.out = (select_last.target \in ScalaOfBinaries)

(***************************************************************************)
(* Claims about FSEventService.run.                                        *)
(***************************************************************************)
Submitted == 1..Len(executor.callbacks)
Pending == {entry[1] : entry \in futures}
Logged == {logger[i].future : i \in 1..Len(logger)}

\* Every future is in the pending map or logged, never both; a logged future
\* was logged once, had completed, and the callback IDs count up from 1.
RemovedAndLoggedOnce ==
    /\ Pending \cup Logged = Submitted
    /\ Pending \cap Logged = {}
    /\ \A i, j \in 1..Len(logger) : logger[i].future = logger[j].future => i = j
    /\ \A i \in 1..Len(logger) :
          /\ logger[i].id = i
          /\ executor.callbacks[logger[i].future] # "running"
          /\ logger[i].level = "debug" <=> executor.callbacks[logger[i].future] = "falsy"
    /\ id_counter = Len(logger)

\* run has ended: it returned or an exception left it.
RunEnded == run_pc \in {"returned", "ServiceError", "RuntimeError"}

\* C31 (as stated): every callback future submitted to the executor is removed
\* from the pending map and logged exactly once, only after it has completed,
\* with callback IDs strictly increasing; and once the service is killed no
\* further callback is submitted.
C31_EveryCallbackLoggedNoneAfterKill ==
    [][/\ RemovedAndLoggedOnce'
       /\ RunEnded' => Logged' = Submitted'
       /\ is_killed => Len(executor.callbacks') = Len(executor.callbacks)]_vars

\* C31 (amended): every future that run removes from the pending map is
\* removed and logged exactly once, only after it has completed, with callback
\* IDs counting up from 1; a future is submitted only in an iteration whose
\* test of is_killed found the service alive, and once run has found the
\* service killed it returns without submitting or logging anything more, so
\* the futures then pending are never logged.
C31_LoggedOnceWhileAlive ==
    [][/\ RemovedAndLoggedOnce'
       /\ Len(executor.callbacks') # Len(executor.callbacks) => run_pc = "submit"
       /\ (run_pc = "is_killed" /\ run_pc' # run_pc)
             => (run_pc' = "returned" <=> is_killed)
       /\ RunEnded => /\ Len(executor.callbacks') = Len(executor.callbacks)
                      /\ logger' = logger /\ futures' = futures]_vars

\* run has logged a failed callback and has then returned on finding the
\* service killed, while a later future that has completed as well is still in
\* the pending map.
C31_Witness ==
    /\ run_pc = "returned"
    /\ is_killed
    /\ Len(logger) = 1
    /\ logger[1].level = "warning"
    /\ \E future \in Pending :
          /\ future > logger[1].future
          /\ executor.callbacks[future] # "running"
====
